---- MODULE Spec2Model ----
(***************************************************************************)
(* A model of the contract API of fabric-go-developer-api: the invocation  *)
(* router (namespace resolution, before / main / after / unknown hooks,    *)
(* argument conversion, response framing) driving the sample chaincodes of *)
(* the repository against a key-value world state.                         *)
(*                                                                         *)
(* Text is modelled as a sequence of tokens: a token is a word or a single *)
(* character ("1", "-", ":"), so that splitting a name at ":" and parsing  *)
(* a base-10 literal are computed, not assumed.                            *)
(***************************************************************************)
EXTENDS Integers, Sequences, FiniteSets, TLC

VARIABLES
    chaincode,   \* which sample chaincode main() registered
    world,       \* the world state: key -> stored bytes (or nil)
    pc,          \* the router's position in the current call
    rawName,     \* the call's raw function name, as sent by the peer
    params,      \* the call's raw string arguments
    stubOk,      \* whether the stub's storage calls succeed in this call
    plan,        \* what the Hooked contract's hooks and function return
    contract,    \* index of the resolved contract (0: none)
    target,      \* "main", "unknown" or "none": what the lookup resolved to
    ctx,         \* the transaction context of the call (its data field)
    ca,          \* the fields of the registered receivers: ComplexAsset's
                 \* Owner, Colours and Value, the system contract's metadata
    typed,       \* the converted arguments
    value,       \* the value the main / unknown function returned
    trace,       \* the hooks and handlers run in the current call, in order
    returns,     \* what each of them returned: its error and its value
    start,       \* world state and receiver fields the call started from
    errors,      \* number of non-nil errors produced during the call
    outcome,     \* the response returned to the peer
    calls,       \* number of calls served so far
    request      \* "init" or "invoke": how the peer sent the current call

vars == <<chaincode, world, pc, rawName, params, stubOk, plan, contract, target,
          ctx, ca, typed, value, trace, returns, start, errors, outcome, calls,
          request>>

\* number of calls the host issues
MaxCalls == 3

----------------------------------------------------------------------------
(* Text helpers *)

Nil == [nil |-> TRUE, bytes |-> <<>>]
Bytes(s) == [nil |-> FALSE, bytes |-> s]

NoError == [nil |-> TRUE, msg |-> <<>>]
Error(m) == [nil |-> FALSE, msg |-> m]

RECURSIVE Join(_)
Join(ss) ==
    IF Len(ss) = 0 THEN <<>>
    ELSE IF Len(ss) = 1 THEN ss[1]
    ELSE ss[1] \o <<" ">> \o Join(Tail(ss))

\* fmt's %v of a []string: [a b c]
FmtArgs(ss) == <<"[">> \o Join(ss) \o <<"]">>

Digits == {"0", "1", "2", "3", "4", "5", "6", "7", "8", "9"}

DigitVal(d) ==
    CASE d = "0" -> 0 [] d = "1" -> 1 [] d = "2" -> 2 [] d = "3" -> 3
      [] d = "4" -> 4 [] d = "5" -> 5 [] d = "6" -> 6 [] d = "7" -> 7
      [] d = "8" -> 8 [] d = "9" -> 9

RECURSIVE DigitsVal(_)
DigitsVal(ds) ==
    IF Len(ds) = 0 THEN 0
    ELSE 10 * DigitsVal(SubSeq(ds, 1, Len(ds) - 1)) + DigitVal(ds[Len(ds)])

AllDigits(ds) == Len(ds) > 0 /\ \A i \in 1..Len(ds) : ds[i] \in Digits

\* strconv base-10 syntax: an optional sign followed by digits
IsIntLiteral(s) ==
    /\ Len(s) > 0
    /\ IF s[1] \in {"-", "+"} THEN AllDigits(Tail(s)) ELSE AllDigits(s)

ParseInt(s) ==
    IF s[1] = "-" THEN 0 - DigitsVal(Tail(s))
    ELSE IF s[1] = "+" THEN DigitsVal(Tail(s))
    ELSE DigitsVal(s)

\* Go's int, a two's complement integer.  It is 64 bits wide on the
\* platforms the peer runs on; here it is IntBits wide, so that its largest
\* and smallest values can be written down.
IntBits == 16

RECURSIVE Pow2(_)
Pow2(n) == IF n = 0 THEN 1 ELSE 2 * Pow2(n - 1)

MaxInt == Pow2(IntBits - 1) - 1
MinInt == 0 - Pow2(IntBits - 1)

\* the int a sum wraps around to
Wrap(n) == ((n - MinInt) % Pow2(IntBits)) + MinInt

\* an int literal whose value an int holds
InRange(s) ==
    /\ Len(s) <= IntBits
    /\ ParseInt(s) >= MinInt
    /\ ParseInt(s) <= MaxInt

----------------------------------------------------------------------------
(* Registration: what each sample chaincode's main() passes to the         *)
(* contract API.  A contract is its struct ("kind"), the name it is        *)
(* registered under and the hooks set on it before the chaincode is        *)
(* created.                                                                *)

None == "none"

\* sample_chaincode/simple_asset_contract: no name set, no hooks
SimpleMain ==
    << [kind |-> "PlainSimpleAsset", name |-> <<"SimpleAsset">>,
        before |-> None, after |-> None, unknown |-> None] >>

\* sample_chaincode/simple_asset_contract_extended
ExtendedMain ==
    << [kind |-> "SimpleAsset", name |-> <<"SimpleAsset">>,
        before |-> "getAsset", after |-> None, unknown |-> "handleUnknown"] >>

\* a registration in which both contracts share one unknown handler
MultiMain_SharedUnknown ==
    << [kind |-> "SimpleAsset", name |-> <<"simpleasset">>,
        before |-> "getAsset", after |-> None,
        unknown |-> "handleSimpleUnknown"],
       [kind |-> "ComplexAsset", name |-> <<"complexasset">>,
        before |-> "getAsset", after |-> None,
        unknown |-> "handleSimpleUnknown"] >>

\* sample_chaincode/multiple_asset_contract
MultiMain ==
    << [kind |-> "SimpleAsset", name |-> <<"simpleasset">>,
        before |-> "getAsset", after |-> None,
        unknown |-> "handleSimpleUnknown"],
       [kind |-> "ComplexAsset", name |-> <<"complexasset">>,
        before |-> "getAsset", after |-> None,
        unknown |-> "handleComplexUnknown"] >>

\* the integer simple asset: no name set, no hooks
IntegerMain ==
    << [kind |-> "IntegerSimpleAsset", name |-> <<"SimpleAsset">>,
        before |-> None, after |-> None, unknown |-> None] >>

\* a contract using every hook the tutorial describes: a before, an after
\* and an unknown transaction function, whose results are the developer's
HookedMain ==
    << [kind |-> "Hooked", name |-> <<"hooked">>,
        before |-> "beforeFn", after |-> "afterFn", unknown |-> "unknownFn"] >>

\* Registrations of a valid contract together with one whose only function
\* breaks a rule of the README's function format: two non-error returns, an
\* error that is not the last return, a transaction context that is not the
\* first parameter, two transaction contexts, a type outside the lists.
BadContract(kind) ==
    [kind |-> kind, name |-> <<kind>>, before |-> None, after |-> None,
     unknown |-> None]

TwoValuesMain == SimpleMain \o <<BadContract("TwoValues")>>
ErrorFirstMain == SimpleMain \o <<BadContract("ErrorFirst")>>
LateContextMain == SimpleMain \o <<BadContract("LateContext")>>
TwoContextsMain == SimpleMain \o <<BadContract("TwoContexts")>>
UnsupportedMain == SimpleMain \o <<BadContract("Unsupported")>>

\* the contract the contract API adds to every chaincode it creates
SystemContract ==
    [kind |-> "systemContract", name |-> <<"org.hyperledger.fabric">>,
     before |-> None, after |-> None, unknown |-> None]

BadChaincodes ==
    {"twovalues", "errorfirst", "latecontext", "twocontexts", "unsupported"}

\* the tutorial's chaincode: the Simple and the Complex contract, named,
\* both with utils.GetWorldState as before transaction
TutorialMain ==
    << [kind |-> "Simple", name |-> <<"SimpleContract">>,
        before |-> "GetWorldState", after |-> None,
        unknown |-> "UnknownTransactionHandler"],
       [kind |-> "Complex", name |-> <<"ComplexContract">>,
        before |-> "GetWorldState", after |-> None, unknown |-> None] >>

Chaincodes ==
    {"simple", "extended", "multi", "integer", "hooked", "tutorial"}
      \cup BadChaincodes

Registered(cc) ==
    CASE cc = "simple" -> SimpleMain
      [] cc = "extended" -> ExtendedMain
      [] cc = "multi" -> MultiMain
      [] cc = "integer" -> IntegerMain
      [] cc = "hooked" -> HookedMain
      [] cc = "tutorial" -> TutorialMain
      [] cc = "twovalues" -> TwoValuesMain
      [] cc = "errorfirst" -> ErrorFirstMain
      [] cc = "latecontext" -> LateContextMain
      [] cc = "twocontexts" -> TwoContextsMain
      [] cc = "unsupported" -> UnsupportedMain

\* The callable functions of a contract struct and their declared
\* parameters (the transaction context, always first, is left out).
Functions(kind) ==
    CASE kind \in {"PlainSimpleAsset", "SimpleAsset", "IntegerSimpleAsset"} ->
           {<<"Create">>, <<"Update">>, <<"Read">>}
      [] kind = "ComplexAsset" ->
           {<<"Create">>, <<"UpdateOwner">>, <<"UpdateValue">>,
            <<"AddColours">>, <<"Read">>, <<"ReadValue">>, <<"ReadColours">>}
      [] kind = "Hooked" -> {<<"Main">>, <<"Ping">>, <<"Echo">>}
      [] kind = "Simple" -> {<<"Create">>, <<"Update">>, <<"Read">>}
      [] kind = "systemContract" -> {<<"GetMetadata">>}
      [] kind = "Complex" ->
           {<<"NewAsset">>, <<"UpdateOwner">>, <<"UpdateValue">>,
            <<"GetAsset">>}
      [] kind \in {"TwoValues", "ErrorFirst", "LateContext", "TwoContexts",
                   "Unsupported"} -> {<<"Get">>}

ParamTypes(kind, fn) ==
    CASE kind \in {"PlainSimpleAsset", "SimpleAsset"} /\ fn = <<"Update">> ->
           <<"string", "string">>
      [] kind = "IntegerSimpleAsset" /\ fn = <<"Update">> -> <<"string", "int">>
      [] kind = "ComplexAsset" /\ fn = <<"UpdateOwner">> -> <<"string", "string">>
      [] kind = "ComplexAsset" /\ fn = <<"UpdateValue">> -> <<"string", "float64">>
      [] kind = "ComplexAsset" /\ fn = <<"AddColours">> -> <<"string", "[]string">>
      [] kind = "Hooked" /\ fn \in {<<"Main">>, <<"Echo">>} -> <<"int">>
      [] kind = "Hooked" /\ fn = <<"Ping">> -> <<>>
      [] kind = "systemContract" /\ fn = <<"GetMetadata">> -> <<>>
      \* the tutorial's Simple.Read is declared with key and value
      [] kind = "Simple" -> <<"string", "string">>
      [] kind = "Complex" /\ fn = <<"NewAsset">> -> <<"string", "string", "int">>
      [] kind = "Complex" /\ fn = <<"UpdateOwner">> -> <<"string", "string">>
      [] kind = "Complex" /\ fn = <<"UpdateValue">> -> <<"string", "int">>
      [] OTHER -> <<"string">>

----------------------------------------------------------------------------
(* Type converter: raw string arguments to typed values, and returned      *)
(* values to the text of the success payload.                              *)

DigitTok(n) ==
    CASE n = 0 -> "0" [] n = 1 -> "1" [] n = 2 -> "2" [] n = 3 -> "3"
      [] n = 4 -> "4" [] n = 5 -> "5" [] n = 6 -> "6" [] n = 7 -> "7"
      [] n = 8 -> "8" [] n = 9 -> "9"

RECURSIVE NatText(_)
NatText(n) ==
    IF n < 10 THEN <<DigitTok(n)>>
    ELSE NatText(n \div 10) \o <<DigitTok(n % 10)>>

\* strconv.Itoa / fmt's %v of an int
Itoa(n) == IF n < 0 THEN <<"-">> \o NatText(0 - n) ELSE NatText(n)

\* float64 values are held as a whole number of 10^-FracDigits units: the
\* literals the model feeds carry at most FracDigits fraction digits.
FracDigits == 2

RECURSIVE Pow10(_)
Pow10(n) == IF n = 0 THEN 1 ELSE 10 * Pow10(n - 1)

Scale == Pow10(FracDigits)

DotAt(s) == {i \in 1..Len(s) : s[i] = "."}

IsFloatLiteral(s) ==
    LET body == IF Len(s) > 0 /\ s[1] \in {"-", "+"} THEN Tail(s) ELSE s
    IN  IF DotAt(body) = {} THEN AllDigits(body)
        ELSE LET d == CHOOSE i \in DotAt(body) : TRUE
             IN  /\ Cardinality(DotAt(body)) = 1
                 /\ AllDigits(SubSeq(body, 1, d - 1))
                 /\ AllDigits(SubSeq(body, d + 1, Len(body)))
                 /\ Len(body) - d <= FracDigits

ParseFloat(s) ==
    LET neg  == s[1] = "-"
        body == IF s[1] \in {"-", "+"} THEN Tail(s) ELSE s
        mag  == IF DotAt(body) = {} THEN Scale * DigitsVal(body)
                ELSE LET d    == CHOOSE i \in DotAt(body) : TRUE
                         frac == SubSeq(body, d + 1, Len(body))
                     IN  Scale * DigitsVal(SubSeq(body, 1, d - 1))
                           + Pow10(FracDigits - Len(frac)) * DigitsVal(frac)
    IN  IF neg THEN 0 - mag ELSE mag

RECURSIVE TrimZeros(_)
TrimZeros(ds) ==
    IF Len(ds) > 0 /\ ds[Len(ds)] = "0" THEN TrimZeros(SubSeq(ds, 1, Len(ds) - 1))
    ELSE ds

\* fmt's %v of a float64 / encoding/json of a float64: shortest decimal
FormatFloat(h) ==
    LET mag  == IF h < 0 THEN 0 - h ELSE h
        frac == mag % Scale
        sign == IF h < 0 THEN <<"-">> ELSE <<>>
        ds   == TrimZeros([i \in 1..FracDigits |->
                             DigitTok((frac \div Pow10(FracDigits - i)) % 10)])
    IN  sign \o NatText(mag \div Scale) \o
        (IF ds = <<>> THEN <<>> ELSE <<".">> \o ds)

Quote == "\""

\* a JSON string starting at ts[i]: the text between two quotes
ParseStr(ts, i) ==
    IF i > Len(ts) \/ ts[i] # Quote THEN [ok |-> FALSE, val |-> <<>>, next |-> i]
    ELSE LET closing == {j \in (i + 1)..Len(ts) : ts[j] = Quote}
         IN  IF closing = {} THEN [ok |-> FALSE, val |-> <<>>, next |-> i]
             ELSE LET j == CHOOSE x \in closing : \A y \in closing : x <= y
                  IN  [ok |-> TRUE, val |-> SubSeq(ts, i + 1, j - 1),
                       next |-> j + 1]

RECURSIVE SkipSpace(_, _)
SkipSpace(ts, i) ==
    IF i <= Len(ts) /\ ts[i] = " " THEN SkipSpace(ts, i + 1) ELSE i

\* the elements of a JSON array of strings from ts[i] on, up to its "]"
RECURSIVE ParseElems(_, _, _)
ParseElems(ts, i, acc) ==
    LET str == ParseStr(ts, SkipSpace(ts, i))
        k   == SkipSpace(ts, str.next)
    IN  IF ~str.ok \/ k > Len(ts) THEN [ok |-> FALSE, val |-> <<>>, next |-> i]
        ELSE IF ts[k] = "," THEN ParseElems(ts, k + 1, Append(acc, str.val))
        ELSE IF ts[k] = "]"
             THEN [ok |-> TRUE, val |-> Append(acc, str.val), next |-> k + 1]
        ELSE [ok |-> FALSE, val |-> <<>>, next |-> i]

\* a JSON array of strings starting at ts[i]
ParseStrings(ts, i) ==
    IF i > Len(ts) \/ ts[i] # "[" THEN [ok |-> FALSE, val |-> <<>>, next |-> i]
    ELSE LET k == SkipSpace(ts, i + 1)
         IN  IF k <= Len(ts) /\ ts[k] = "]"
             THEN [ok |-> TRUE, val |-> <<>>, next |-> k + 1]
             ELSE ParseElems(ts, i + 1, <<>>)

RECURSIVE EncodeElems(_)
EncodeElems(ss) ==
    IF Len(ss) = 0 THEN <<>>
    ELSE <<Quote>> \o ss[1] \o <<Quote>> \o
         (IF Len(ss) = 1 THEN <<>> ELSE <<",">> \o EncodeElems(Tail(ss)))

\* encoding/json of a []string
EncodeStrings(ss) == <<"[">> \o EncodeElems(ss) \o <<"]">>

\* the longest array or slice the converter is tried on
MaxLen == 2

\* the element type of an array or slice type ("": not an array or slice)
Elem(t) ==
    CASE t = "[]string" -> "string"
      [] t = "[][]string" -> "[]string"
      [] t = "[]int" -> "int"
      [] t = "[2]int" -> "int"
      [] t = "[][2]int" -> "[2]int"
      [] OTHER -> ""

\* the length of an array type (0: a slice, of any length)
ArrayLen(t) == IF t = "[2]int" THEN 2 ELSE 0

\* an array or slice value: a nil slice, or its elements in order
NilSlice == [nil |-> TRUE, elems |-> <<>>]
Slice(es) == [nil |-> FALSE, elems |-> es]

\* an encoder that writes a nil slice as the empty array
RECURSIVE EncodeJSON_NoNull(_, _)
EncodeJSON_NoNull(type, v) ==
    IF type = "string" THEN <<Quote>> \o v \o <<Quote>>
    ELSE IF type = "int" THEN Itoa(v)
    ELSE LET item(i) == (IF i = 1 THEN <<>> ELSE <<",">>)
                          \o EncodeJSON_NoNull(Elem(type), v.elems[i])
             upto[n \in 0..Len(v.elems)] ==
                 IF n = 0 THEN <<>> ELSE upto[n - 1] \o item(n)
         IN  <<"[">> \o upto[Len(v.elems)] \o <<"]">>

\* A value of an array or slice type as JSON: the elements in order between
\* brackets, each encoded as its type asks, at every depth; a nil slice is
\* written as null.
RECURSIVE EncodeJSON(_, _)
EncodeJSON(type, v) ==
    IF type = "string" THEN <<Quote>> \o v \o <<Quote>>
    ELSE IF type = "int" THEN Itoa(v)
    ELSE IF v.nil THEN <<"null">>
    ELSE LET item(i) == (IF i = 1 THEN <<>> ELSE <<",">>)
                          \o EncodeJSON(Elem(type), v.elems[i])
             upto[n \in 0..Len(v.elems)] ==
                 IF n = 0 THEN <<>> ELSE upto[n - 1] \o item(n)
         IN  <<"[">> \o upto[Len(v.elems)] \o <<"]">>

\* the first ",", "]" or space of ts from position i on, or Len(ts) + 1
RECURSIVE LeafEnd(_, _)
LeafEnd(ts, i) ==
    IF i > Len(ts) \/ ts[i] \in {",", "]", " "} THEN i ELSE LeafEnd(ts, i + 1)

\* JSON text from ts[i] on as a value of the type: a leaf by the rule of
\* its basic type, an array or slice element by element.  An array takes
\* exactly as many elements as it is long.
RECURSIVE ParseJSON(_, _, _)
RECURSIVE ParseItems(_, _, _, _)
ParseJSON(type, ts, i) ==
    LET k    == SkipSpace(ts, i)
        bad  == [ok |-> FALSE, val |-> <<>>, next |-> i]
        leaf == SubSeq(ts, k, LeafEnd(ts, k) - 1)
    IN  IF k > Len(ts) THEN bad
        ELSE IF type = "string" THEN ParseStr(ts, k)
        ELSE IF type = "int"
        THEN IF IsIntLiteral(leaf)
             THEN [ok |-> TRUE, val |-> ParseInt(leaf), next |-> LeafEnd(ts, k)]
             ELSE bad
        ELSE IF ts[k] = "null" /\ ArrayLen(type) = 0
        THEN [ok |-> TRUE, val |-> NilSlice, next |-> k + 1]
        ELSE IF ts[k] # "[" THEN bad
        ELSE LET j == SkipSpace(ts, k + 1)
             IN  IF j <= Len(ts) /\ ts[j] = "]"
                 THEN IF ArrayLen(type) = 0
                      THEN [ok |-> TRUE, val |-> Slice(<<>>), next |-> j + 1]
                      ELSE bad
                 ELSE LET items == ParseItems(Elem(type), ts, k + 1, <<>>)
                      IN  IF items.ok /\ ArrayLen(type) # 0
                                      /\ Len(items.val.elems) # ArrayLen(type)
                          THEN bad
                          ELSE items

ParseItems(et, ts, i, acc) ==
    LET e == ParseJSON(et, ts, i)
        k == SkipSpace(ts, e.next)
    IN  IF ~e.ok \/ k > Len(ts) THEN [ok |-> FALSE, val |-> <<>>, next |-> i]
        ELSE IF ts[k] = "," THEN ParseItems(et, ts, k + 1, Append(acc, e.val))
        ELSE IF ts[k] = "]"
             THEN [ok |-> TRUE, val |-> Slice(Append(acc, e.val)),
                   next |-> k + 1]
        ELSE [ok |-> FALSE, val |-> <<>>, next |-> i]

\* a converter that takes the zero value for text it cannot parse
ConvertArg_Lenient(type, raw) ==
    CASE type = "string" -> [ok |-> TRUE, val |-> raw]
      [] type = "int" ->
           [ok |-> TRUE, val |-> IF IsIntLiteral(raw) THEN ParseInt(raw) ELSE 0]
      [] type = "float64" ->
           [ok |-> TRUE, val |-> IF IsFloatLiteral(raw) THEN ParseFloat(raw) ELSE 0]
      [] Elem(type) # "" ->
           LET arr == ParseJSON(type, raw, 1)
           IN  [ok |-> TRUE,
                val |-> IF arr.ok /\ arr.next = Len(raw) + 1 THEN arr.val
                        ELSE NilSlice]

\* One raw argument against its declared parameter type.
ConvertArg(type, raw) ==
    CASE type = "string" -> [ok |-> TRUE, val |-> raw]
      [] type = "int" ->
           IF IsIntLiteral(raw) /\ InRange(raw)
           THEN [ok |-> TRUE, val |-> ParseInt(raw)]
           ELSE [ok |-> FALSE, val |-> raw]
      [] type = "float64" ->
           IF IsFloatLiteral(raw) THEN [ok |-> TRUE, val |-> ParseFloat(raw)]
           ELSE [ok |-> FALSE, val |-> raw]
      [] Elem(type) # "" ->
           LET arr == ParseJSON(type, raw, 1)
           IN  IF arr.ok /\ arr.next = Len(raw) + 1
               THEN [ok |-> TRUE, val |-> arr.val]
               ELSE [ok |-> FALSE, val |-> raw]

\* defs.BasicAsset: json.Marshal writes the tagged fields in declaration
\* order
EncodeBasicAsset(ba) ==
    <<"{", "\"id\":", Quote>> \o ba.id \o <<Quote, ",", "\"owner\":", Quote>>
      \o ba.owner \o <<Quote, ",", "\"value\":">> \o Itoa(ba.value)
      \o <<",", "\"condition\":">> \o Itoa(ba.condition) \o <<"}">>

ZeroBasicAsset == [id |-> <<>>, owner |-> <<>>, value |-> 0, condition |-> 0]

\* json.Unmarshal(existing, &ba)
DecodeBasicAsset(ts) ==
    LET bad == [ok |-> FALSE, ba |-> ZeroBasicAsset]
    IN  IF Len(ts) < 3 \/ ts[1] # "{" \/ ts[2] # "\"id\":" THEN bad
        ELSE
        LET i == ParseStr(ts, 3)
        IN  IF ~i.ok \/ i.next + 1 > Len(ts) THEN bad
            ELSE IF ts[i.next] # "," \/ ts[i.next + 1] # "\"owner\":" THEN bad
            ELSE
            LET o == ParseStr(ts, i.next + 2)
                c == {p \in 1..Len(ts) : ts[p] = "\"condition\":"}
            IN  IF ~o.ok \/ o.next + 1 > Len(ts) \/ Cardinality(c) # 1 THEN bad
                ELSE IF ts[o.next] # "," \/ ts[o.next + 1] # "\"value\":"
                        \/ ts[Len(ts)] # "}" THEN bad
                ELSE
                LET p == CHOOSE x \in c : TRUE
                    v == SubSeq(ts, o.next + 2, p - 2)
                    n == SubSeq(ts, p + 1, Len(ts) - 1)
                IN  IF p < o.next + 3 \/ ts[p - 1] # "," \/ ~IsIntLiteral(v)
                       \/ ~IsIntLiteral(n) THEN bad
                    ELSE [ok |-> TRUE,
                          ba |-> [id |-> i.val, owner |-> o.val,
                                  value |-> ParseInt(v),
                                  condition |-> ParseInt(n)]]

\* a framing that carries strings only and drops every other value
FormatValue_StringsOnly(type, v) == IF type = "string" THEN v ELSE <<>>

\* The returned value as the text of the success payload.
FormatValue(type, v) ==
    CASE type = "string" -> v
      [] type = "int" -> Itoa(v)
      [] type = "float64" -> FormatFloat(v)
      [] Elem(type) # "" -> EncodeJSON(type, v)
      [] type = "*defs.BasicAsset" -> EncodeBasicAsset(v)
      [] type = "none" -> <<>>

----------------------------------------------------------------------------
(* The stub: the world state as the handlers reach it.                     *)

Get(w, k) == IF k \in DOMAIN w THEN w[k] ELSE Nil

Put(w, k, v) ==
    [x \in DOMAIN w \cup {k} |-> IF x = k THEN Bytes(v) ELSE w[x]]

\* ctx.GetStub().GetState(key): the bytes (nil when absent) or an error
GetState(w, ok, k) ==
    IF ok THEN [err |-> FALSE, val |-> Get(w, k)]
    ELSE [err |-> TRUE, val |-> Nil]

\* ctx.GetStub().PutState(key, value)
PutState(w, ok, k, v) ==
    IF ok THEN [err |-> FALSE, world |-> Put(w, k, v)]
    ELSE [err |-> TRUE, world |-> w]

Unable == <<"Unable to interact with world state">>

\* what a hook or handler hands back: its error, its other return value,
\* and the world state, context data and receiver fields it leaves
Ret(e, v, w, d, a) == [err |-> e, val |-> v, world |-> w, data |-> d, ca |-> a]

----------------------------------------------------------------------------
(* Hooks set by the sample chaincodes.                                     *)

\* the developer's outcome of a hook or function of the Hooked contract
Choices == {"ok", "error"}

getAsset(ps, w, ok, d, a) ==
    IF Len(ps) = 0 THEN Ret(Error(<<"Incorrect number of params">>), <<>>, w, d, a)
    ELSE LET got == GetState(w, ok, ps[1])
         IN  IF got.err THEN Ret(Error(Unable), <<>>, w, d, a)
             ELSE Ret(NoError, <<>>, w, got.val, a)

handleUnknown(raw, ps, w, d, a) ==
    Ret(Error(<<"Unknown function name ">> \o raw \o <<" passed with args ">>
                \o FmtArgs(ps)), <<>>, w, d, a)

handleSimpleUnknown(raw, ps, w, d, a) ==
    Ret(Error(<<"Unknown function name ">> \o raw
                \o <<" passed to simple asset with args ">> \o FmtArgs(ps)),
        <<>>, w, d, a)

handleComplexUnknown(raw, ps, w, d, a) ==
    Ret(Error(<<"Unknown function name ">> \o raw
                \o <<" passed to complex asset with args ">> \o FmtArgs(ps)),
        <<>>, w, d, a)

\* utils.GetWorldState(ctx, key): the tutorial's before transaction
GetWorldState(ps, w, ok, d, a) ==
    IF Len(ps) = 0 THEN Ret(Error(<<"Incorrect number of params">>), <<>>, w, d, a)
    ELSE LET got == GetState(w, ok, ps[1])
         IN  IF got.err THEN Ret(Error(Unable), <<>>, w, d, a)
             ELSE Ret(NoError, <<>>, w, got.val, a)

\* utils.UnknownTransactionHandler(ctx)
UnknownTransactionHandler(raw, ps, w, d, a) ==
    Ret(Error(<<"Invalid function ">> \o raw), <<>>, w, d, a)

\* the Hooked contract's before transaction writes a key and sets the
\* context's data before it returns
beforeFn(choice, w, ok, d, a) ==
    LET put == PutState(w, ok, <<"seen">>, <<"before ran">>)
    IN  IF put.err THEN Ret(Error(Unable), <<>>, w, d, a)
        ELSE IF choice = "error"
        THEN Ret(Error(<<"before failed">>), <<>>, put.world, d, a)
        ELSE Ret(NoError, <<>>, put.world, Bytes(<<"set by before">>), a)

\* the Hooked contract's after transaction hands back what it was passed
afterFn(choice, v, w, d, a) ==
    IF choice = "error" THEN Ret(Error(<<"after failed">>), [saw |-> v], w, d, a)
    ELSE Ret(NoError, [saw |-> v], w, d, a)

unknownFn(choice, w, d, a) ==
    IF choice = "error" THEN Ret(Error(<<"unknown failed">>), <<>>, w, d, a)
    ELSE Ret(NoError, <<"unknown value">>, w, d, a)

\* number of parameters hook h declares besides the transaction context
HookParams(h) ==
    CASE h = "getAsset" -> 1
      [] h = "GetWorldState" -> 1
      [] h = "afterFn" -> 1
      [] OTHER -> 0

\* Calling hook h of a contract: args are the parameters it is passed, raw
\* and ps the function name and arguments it can read through the stub.
CallHook(h, choice, raw, ps, args, w, ok, d, a) ==
    CASE h = "getAsset" -> getAsset(args, w, ok, d, a)
      [] h = "handleUnknown" -> handleUnknown(raw, ps, w, d, a)
      [] h = "handleSimpleUnknown" -> handleSimpleUnknown(raw, ps, w, d, a)
      [] h = "handleComplexUnknown" -> handleComplexUnknown(raw, ps, w, d, a)
      [] h = "GetWorldState" -> GetWorldState(args, w, ok, d, a)
      [] h = "UnknownTransactionHandler" ->
           UnknownTransactionHandler(raw, ps, w, d, a)
      [] h = "beforeFn" -> beforeFn(choice, w, ok, d, a)
      [] h = "afterFn" -> afterFn(choice, args[1], w, d, a)
      [] h = "unknownFn" -> unknownFn(choice, w, d, a)

\* the type of the non-error value a hook returns ("none": error only)
HookReturnType(h) ==
    IF h \in {"afterFn", "unknownFn"} THEN "string" ELSE "none"

----------------------------------------------------------------------------
(* The contract functions of the sample chaincodes.  xs are the converted  *)
(* arguments, d the context's data field, a the receiver's fields.         *)

Exists(id) == <<"Cannot create asset. Asset with id ">> \o id \o <<" already exists">>
NoUpdate(id) == <<"Cannot update asset. Asset with id ">> \o id \o <<" does not exist">>
NoRead(id) == <<"Cannot read asset. Asset with id ">> \o id \o <<" does not exist">>
NotComplex(id) == <<"Asset with id ">> \o id \o <<" is not a ComplexAsset">>

\* simple_asset_contract: SimpleAsset reading the world state itself
PlainCreate(xs, w, ok, d, a) ==
    LET got == GetState(w, ok, xs[1])
        put == PutState(w, ok, xs[1], <<"Initialised">>)
    IN  IF got.err THEN Ret(Error(Unable), <<>>, w, d, a)
        ELSE IF ~got.val.nil THEN Ret(Error(Exists(xs[1])), <<>>, w, d, a)
        ELSE IF put.err THEN Ret(Error(Unable), <<>>, w, d, a)
        ELSE Ret(NoError, <<>>, put.world, d, a)

PlainUpdate(xs, w, ok, d, a) ==
    LET got == GetState(w, ok, xs[1])
        put == PutState(w, ok, xs[1], xs[2])
    IN  IF got.err THEN Ret(Error(Unable), <<>>, w, d, a)
        ELSE IF got.val.nil THEN Ret(Error(NoUpdate(xs[1])), <<>>, w, d, a)
        ELSE IF put.err THEN Ret(Error(Unable), <<>>, w, d, a)
        ELSE Ret(NoError, <<>>, put.world, d, a)

PlainRead(xs, w, ok, d, a) ==
    LET got == GetState(w, ok, xs[1])
    IN  IF got.err THEN Ret(Error(Unable), <<>>, w, d, a)
        ELSE IF got.val.nil THEN Ret(Error(NoRead(xs[1])), <<>>, w, d, a)
        ELSE Ret(NoError, got.val.bytes, w, d, a)

\* simple_asset_contract_extended and multiple_asset_contract: SimpleAsset
\* reading what the before transaction left in the context
SimpleCreate(xs, w, ok, d, a) ==
    LET put == PutState(w, ok, xs[1], <<"Initialised">>)
    IN  IF Len(d.bytes) > 0 THEN Ret(Error(Exists(xs[1])), <<>>, w, d, a)
        ELSE IF put.err THEN Ret(Error(Unable), <<>>, w, d, a)
        ELSE Ret(NoError, <<>>, put.world, d, a)

\* an Update that writes the value whether or not the asset exists
SimpleUpdate_Upsert(xs, w, ok, d, a) ==
    LET put == PutState(w, ok, xs[1], xs[2])
    IN  IF put.err THEN Ret(Error(Unable), <<>>, w, d, a)
        ELSE Ret(NoError, <<>>, put.world, d, a)

SimpleUpdate(xs, w, ok, d, a) ==
    LET put == PutState(w, ok, xs[1], xs[2])
    IN  IF Len(d.bytes) = 0 THEN Ret(Error(NoUpdate(xs[1])), <<>>, w, d, a)
        ELSE IF put.err THEN Ret(Error(Unable), <<>>, w, d, a)
        ELSE Ret(NoError, <<>>, put.world, d, a)

SimpleRead(xs, w, ok, d, a) ==
    IF Len(d.bytes) = 0 THEN Ret(Error(NoRead(xs[1])), <<>>, w, d, a)
    ELSE Ret(NoError, d.bytes, w, d, a)

\* the integer simple asset
IntegerCreate(xs, w, ok, d, a) ==
    LET got == GetState(w, ok, xs[1])
        put == PutState(w, ok, xs[1], <<"0">>)
    IN  IF got.err THEN Ret(Error(Unable), <<>>, w, d, a)
        ELSE IF ~got.val.nil THEN Ret(Error(Exists(xs[1])), <<>>, w, d, a)
        ELSE IF put.err THEN Ret(Error(Unable), <<>>, w, d, a)
        ELSE Ret(NoError, <<>>, put.world, d, a)

\* strconv.Atoi with its error dropped: 0 for text that is no literal of
\* an int
AtoiOrZero(s) == IF IsIntLiteral(s) /\ InRange(s) THEN ParseInt(s) ELSE 0

IntegerUpdate(xs, w, ok, d, a) ==
    LET got    == GetState(w, ok, xs[1])
        newVal == Wrap(AtoiOrZero(got.val.bytes) + xs[2])
        put    == PutState(w, ok, xs[1], Itoa(newVal))
    IN  IF got.err THEN Ret(Error(Unable), <<>>, w, d, a)
        ELSE IF got.val.nil THEN Ret(Error(NoUpdate(xs[1])), <<>>, w, d, a)
        ELSE IF put.err THEN Ret(Error(Unable), <<>>, w, d, a)
        ELSE Ret(NoError, <<>>, put.world, d, a)

IntegerRead(xs, w, ok, d, a) ==
    LET got == GetState(w, ok, xs[1])
    IN  IF got.err THEN Ret(Error(Unable), 0 - 1, w, d, a)
        ELSE IF got.val.nil THEN Ret(Error(NoRead(xs[1])), 0 - 1, w, d, a)
        ELSE Ret(NoError, AtoiOrZero(got.val.bytes), w, d, a)

\* ComplexAsset: the receiver's Owner, Colours and Value fields, stored as
\* JSON.  The receiver is the one struct handed to CreateNewChaincode, so
\* its fields last from one call to the next.  Colours is nil in a new
\* struct (nilColours), and json.Marshal writes a nil slice as null.
ZeroAsset ==
    [owner |-> <<>>, colours |-> <<>>, nilColours |-> TRUE, value |-> 0,
     metadata |-> <<>>]

\* json.Marshal writes the three tagged fields in declaration order
EncodeAsset(a) ==
    <<"{", "\"owner\":", Quote>> \o a.owner \o <<Quote, ",", "\"colours\":">>
      \o (IF a.nilColours THEN <<"null">> ELSE EncodeStrings(a.colours))
      \o <<",", "\"value\":">> \o FormatFloat(a.value) \o <<"}">>

\* the first "," or "}" of ts from position i on, or Len(ts) + 1
RECURSIVE ValueEnd(_, _)
ValueEnd(ts, i) ==
    IF i > Len(ts) \/ ts[i] \in {",", "}"} THEN i ELSE ValueEnd(ts, i + 1)

\* the member of a JSON object whose key is ts[i]: the receiver with the
\* field the key names set, and the position after the member's value
DecodeMember(ts, i, a) ==
    LET bad == [ok |-> FALSE, next |-> i, ca |-> a]
    IN  IF i + 1 > Len(ts) THEN bad
        ELSE IF ts[i] = "\"owner\":"
        THEN LET o == ParseStr(ts, i + 1)
             IN  IF ~o.ok THEN bad
                 ELSE [ok |-> TRUE, next |-> o.next,
                       ca |-> [a EXCEPT !.owner = o.val]]
        ELSE IF ts[i] = "\"colours\":"
        THEN IF ts[i + 1] = "null"
             THEN [ok |-> TRUE, next |-> i + 2,
                   ca |-> [a EXCEPT !.colours = <<>>, !.nilColours = TRUE]]
             ELSE LET c == ParseStrings(ts, i + 1)
                  IN  IF ~c.ok THEN bad
                      ELSE [ok |-> TRUE, next |-> c.next,
                            ca |-> [a EXCEPT !.colours = c.val,
                                             !.nilColours = FALSE]]
        ELSE IF ts[i] = "\"value\":"
        THEN LET n == ValueEnd(ts, i + 1)
                 f == SubSeq(ts, i + 1, n - 1)
             IN  IF ~IsFloatLiteral(f) THEN bad
                 ELSE [ok |-> TRUE, next |-> n,
                       ca |-> [a EXCEPT !.value = ParseFloat(f)]]
        ELSE bad

\* the members of a JSON object from the key ts[i] on, up to the closing
\* brace that ends the text: each member sets the field its key names, in
\* whatever order the members come, and a field no member names is left
\* with the value it had
RECURSIVE DecodeMembers(_, _, _)
RECURSIVE DecodeRest(_, _)
DecodeMembers(ts, i, a) == DecodeRest(ts, DecodeMember(ts, i, a))

\* what follows the member m: the closing brace, or a comma and the members
\* left
DecodeRest(ts, m) ==
    LET bad == [ok |-> FALSE, ca |-> m.ca]
    IN  IF ~m.ok \/ m.next > Len(ts) THEN bad
        ELSE IF ts[m.next] = "}"
        THEN IF m.next = Len(ts) THEN [ok |-> TRUE, ca |-> m.ca] ELSE bad
        ELSE IF ts[m.next] = "," /\ m.next < Len(ts)
        THEN DecodeMembers(ts, m.next + 1, m.ca)
        ELSE bad

\* the decoded members, or the error and the receiver as it was
WhenValid(members, a) ==
    IF members.ok THEN members ELSE [ok |-> FALSE, ca |-> a]

\* json.Unmarshal(existing, ca): the receiver's fields after decoding, or
\* an error that leaves the receiver as it was.  The text null and the
\* object without members decode without error and set no field.
DecodeAsset(ts, a) ==
    IF ts = <<"null">> \/ ts = <<"{", "}">> THEN [ok |-> TRUE, ca |-> a]
    ELSE IF Len(ts) < 3 \/ ts[1] # "{" THEN [ok |-> FALSE, ca |-> a]
    ELSE WhenValid(DecodeMembers(ts, 2, a), a)

\* ca.put(ctx, assetID)
ComplexPut(id, w, ok, d, a) ==
    LET put == PutState(w, ok, id, EncodeAsset(a))
    IN  IF put.err THEN Ret(Error(Unable), <<>>, w, d, a)
        ELSE Ret(NoError, <<>>, put.world, d, a)

ComplexCreate(xs, w, ok, d, a) ==
    IF Len(d.bytes) > 0 THEN Ret(Error(Exists(xs[1])), <<>>, w, d, a)
    ELSE ComplexPut(xs[1], w, ok, d,
                    [a EXCEPT !.owner = <<"Regulator">>, !.colours = <<>>,
                              !.nilColours = FALSE, !.value = 0])

ComplexUpdateOwner(xs, w, ok, d, a) ==
    LET dec == DecodeAsset(d.bytes, a)
    IN  IF Len(d.bytes) = 0 THEN Ret(Error(NoUpdate(xs[1])), <<>>, w, d, a)
        ELSE IF ~dec.ok THEN Ret(Error(NotComplex(xs[1])), <<>>, w, d, a)
        ELSE ComplexPut(xs[1], w, ok, d, [dec.ca EXCEPT !.owner = xs[2]])

ComplexUpdateValue(xs, w, ok, d, a) ==
    LET dec == DecodeAsset(d.bytes, a)
    IN  IF Len(d.bytes) = 0 THEN Ret(Error(NoUpdate(xs[1])), <<>>, w, d, a)
        ELSE IF ~dec.ok THEN Ret(Error(NotComplex(xs[1])), <<>>, w, d, a)
        ELSE ComplexPut(xs[1], w, ok, d,
                        [dec.ca EXCEPT !.value = dec.ca.value + xs[2]])

\* an AddColours that stores the given colours in place of the old ones
ComplexAddColours_Replace(xs, w, ok, d, a) ==
    LET dec == DecodeAsset(d.bytes, a)
    IN  IF Len(d.bytes) = 0 THEN Ret(Error(NoUpdate(xs[1])), <<>>, w, d, a)
        ELSE IF ~dec.ok THEN Ret(Error(NotComplex(xs[1])), <<>>, w, d, a)
        ELSE ComplexPut(xs[1], w, ok, d,
                        [dec.ca EXCEPT !.colours = xs[2].elems,
                                       !.nilColours = xs[2].nil])

ComplexAddColours(xs, w, ok, d, a) ==
    LET dec == DecodeAsset(d.bytes, a)
    IN  IF Len(d.bytes) = 0 THEN Ret(Error(NoUpdate(xs[1])), <<>>, w, d, a)
        ELSE IF ~dec.ok THEN Ret(Error(NotComplex(xs[1])), <<>>, w, d, a)
        ELSE ComplexPut(xs[1], w, ok, d,
                        [dec.ca EXCEPT
                           !.colours = dec.ca.colours \o xs[2].elems,
                           !.nilColours = dec.ca.nilColours
                                            /\ xs[2].elems = <<>>])

ComplexRead(xs, w, ok, d, a) ==
    LET dec == DecodeAsset(d.bytes, a)
    IN  IF Len(d.bytes) = 0 THEN Ret(Error(NoRead(xs[1])), <<>>, w, d, a)
        ELSE IF ~dec.ok THEN Ret(Error(NotComplex(xs[1])), <<>>, w, d, a)
        ELSE Ret(NoError,
                 dec.ca.owner \o <<" - ">> \o FormatFloat(dec.ca.value)
                   \o <<" - ">> \o FmtArgs(dec.ca.colours),
                 w, d, dec.ca)

ComplexReadValue(xs, w, ok, d, a) ==
    LET dec == DecodeAsset(d.bytes, a)
    IN  IF Len(d.bytes) = 0 THEN Ret(Error(NoRead(xs[1])), 0 - Scale, w, d, a)
        ELSE IF ~dec.ok THEN Ret(Error(NotComplex(xs[1])), 0 - Scale, w, d, a)
        ELSE Ret(NoError, dec.ca.value, w, d, dec.ca)

ComplexReadColours(xs, w, ok, d, a) ==
    LET dec == DecodeAsset(d.bytes, a)
    IN  IF Len(d.bytes) = 0 THEN Ret(Error(NoRead(xs[1])), NilSlice, w, d, a)
        ELSE IF ~dec.ok THEN Ret(Error(NotComplex(xs[1])), NilSlice, w, d, a)
        ELSE Ret(NoError,
                 [nil |-> dec.ca.nilColours, elems |-> dec.ca.colours],
                 w, d, dec.ca)

\* the tutorial's Simple contract, reading ctx.CallData
PairExists(k) ==
    <<"Cannot create world state pair with key ">> \o k \o <<". Already exists">>
NoPairUpdate(k) ==
    <<"Cannot update world state pair with key ">> \o k \o <<". Does not exist">>
NoPairRead(k) ==
    <<"Cannot read world state pair with key ">> \o k \o <<". Does not exist">>

TutorialCreate(xs, w, ok, d, a) ==
    LET put == PutState(w, ok, xs[1], xs[2])
    IN  IF ~d.nil THEN Ret(Error(PairExists(xs[1])), <<>>, w, d, a)
        ELSE IF put.err THEN Ret(Error(Unable), <<>>, w, d, a)
        ELSE Ret(NoError, <<>>, put.world, d, a)

TutorialUpdate(xs, w, ok, d, a) ==
    LET put == PutState(w, ok, xs[1], xs[2])
    IN  IF d.nil THEN Ret(Error(NoPairUpdate(xs[1])), <<>>, w, d, a)
        ELSE IF put.err THEN Ret(Error(Unable), <<>>, w, d, a)
        ELSE Ret(NoError, <<>>, put.world, d, a)

TutorialRead(xs, w, ok, d, a) ==
    IF d.nil THEN Ret(Error(NoPairRead(xs[1])), <<>>, w, d, a)
    ELSE Ret(NoError, d.bytes, w, d, a)

\* the tutorial's Complex contract: a defs.BasicAsset stored as JSON
KeyExists(id) ==
    <<"Cannot create new asset in world state as key ">> \o id
      \o <<" already exists">>
NoKeyUpdate(id) ==
    <<"Cannot update asset in world state as key ">> \o id
      \o <<" does not exist">>
NotBasicAsset(id) ==
    <<"Data retrieved from world state for key ">> \o id
      \o <<" was not of type BasicAsset">>

BasicAssetPut(ba, id, w, ok, d, a) ==
    LET put == PutState(w, ok, id, EncodeBasicAsset(ba))
    IN  IF put.err THEN Ret(Error(Unable), <<>>, w, d, a)
        ELSE Ret(NoError, <<>>, put.world, d, a)

NewAsset(xs, w, ok, d, a) ==
    IF ~d.nil THEN Ret(Error(KeyExists(xs[1])), <<>>, w, d, a)
    ELSE BasicAssetPut([id |-> xs[1], owner |-> xs[2], value |-> xs[3],
                        condition |-> 0], xs[1], w, ok, d, a)

UpdateOwner(xs, w, ok, d, a) ==
    LET dec == DecodeBasicAsset(d.bytes)
    IN  IF d.nil THEN Ret(Error(NoKeyUpdate(xs[1])), <<>>, w, d, a)
        ELSE IF ~dec.ok THEN Ret(Error(NotBasicAsset(xs[1])), <<>>, w, d, a)
        ELSE BasicAssetPut([dec.ba EXCEPT !.owner = xs[2], !.condition = 1],
                           xs[1], w, ok, d, a)

UpdateValue(xs, w, ok, d, a) ==
    LET dec == DecodeBasicAsset(d.bytes)
    IN  IF d.nil THEN Ret(Error(NoKeyUpdate(xs[1])), <<>>, w, d, a)
        ELSE IF ~dec.ok THEN Ret(Error(NotBasicAsset(xs[1])), <<>>, w, d, a)
        ELSE BasicAssetPut([dec.ba EXCEPT !.value = Wrap(@ + xs[2])],
                           xs[1], w, ok, d, a)

\* GetAsset(ctx, id) (*defs.BasicAsset, error)
GetAsset(xs, w, ok, d, a) ==
    LET dec == DecodeBasicAsset(d.bytes)
    IN  IF d.nil THEN Ret(Error(NoPairRead(xs[1])), ZeroBasicAsset, w, d, a)
        ELSE IF ~dec.ok
        THEN Ret(Error(NotBasicAsset(xs[1])), ZeroBasicAsset, w, d, a)
        ELSE Ret(NoError, dec.ba, w, d, a)

\* the system contract: the metadata of the chaincode it is part of
setMetadata(xs, w, ok, d, a) ==
    Ret(NoError, <<>>, w, d, [a EXCEPT !.metadata = xs[1]])

GetMetadata(xs, w, ok, d, a) == Ret(NoError, a.metadata, w, d, a)

\* the Hooked contract's function: Main(ctx, amount int) (int, error)
HookedMainFn(choice, xs, w, ok, d, a) ==
    IF choice = "error" THEN Ret(Error(<<"main failed">>), 0, w, d, a)
    ELSE Ret(NoError, xs[1], w, d, a)

\* the Hooked contract's function without returns: Ping(ctx)
HookedPing(xs, w, ok, d, a) == Ret(NoError, <<>>, w, d, a)

\* the Hooked contract's function with one value and no error:
\* Echo(ctx, amount int) int
HookedEcho(xs, w, ok, d, a) == Ret(NoError, xs[1], w, d, a)

\* Calling function fn of a contract struct with converted arguments.
CallFunction(kind, fn, choice, xs, w, ok, d, a) ==
    CASE kind = "PlainSimpleAsset" /\ fn = <<"Create">> -> PlainCreate(xs, w, ok, d, a)
      [] kind = "PlainSimpleAsset" /\ fn = <<"Update">> -> PlainUpdate(xs, w, ok, d, a)
      [] kind = "PlainSimpleAsset" /\ fn = <<"Read">> -> PlainRead(xs, w, ok, d, a)
      [] kind = "SimpleAsset" /\ fn = <<"Create">> -> SimpleCreate(xs, w, ok, d, a)
      [] kind = "SimpleAsset" /\ fn = <<"Update">> -> SimpleUpdate(xs, w, ok, d, a)
      [] kind = "SimpleAsset" /\ fn = <<"Read">> -> SimpleRead(xs, w, ok, d, a)
      [] kind = "IntegerSimpleAsset" /\ fn = <<"Create">> -> IntegerCreate(xs, w, ok, d, a)
      [] kind = "IntegerSimpleAsset" /\ fn = <<"Update">> -> IntegerUpdate(xs, w, ok, d, a)
      [] kind = "IntegerSimpleAsset" /\ fn = <<"Read">> -> IntegerRead(xs, w, ok, d, a)
      [] kind = "ComplexAsset" /\ fn = <<"Create">> -> ComplexCreate(xs, w, ok, d, a)
      [] kind = "ComplexAsset" /\ fn = <<"UpdateOwner">> -> ComplexUpdateOwner(xs, w, ok, d, a)
      [] kind = "ComplexAsset" /\ fn = <<"UpdateValue">> -> ComplexUpdateValue(xs, w, ok, d, a)
      [] kind = "ComplexAsset" /\ fn = <<"AddColours">> -> ComplexAddColours(xs, w, ok, d, a)
      [] kind = "ComplexAsset" /\ fn = <<"Read">> -> ComplexRead(xs, w, ok, d, a)
      [] kind = "ComplexAsset" /\ fn = <<"ReadValue">> -> ComplexReadValue(xs, w, ok, d, a)
      [] kind = "ComplexAsset" /\ fn = <<"ReadColours">> -> ComplexReadColours(xs, w, ok, d, a)
      [] kind = "Hooked" /\ fn = <<"Main">> -> HookedMainFn(choice, xs, w, ok, d, a)
      [] kind = "Hooked" /\ fn = <<"Ping">> -> HookedPing(xs, w, ok, d, a)
      [] kind = "Hooked" /\ fn = <<"Echo">> -> HookedEcho(xs, w, ok, d, a)
      [] kind = "systemContract" /\ fn = <<"GetMetadata">> ->
           GetMetadata(xs, w, ok, d, a)
      [] kind = "systemContract" /\ fn = <<"setMetadata">> ->
           setMetadata(xs, w, ok, d, a)
      [] kind = "Simple" /\ fn = <<"Create">> -> TutorialCreate(xs, w, ok, d, a)
      [] kind = "Simple" /\ fn = <<"Update">> -> TutorialUpdate(xs, w, ok, d, a)
      [] kind = "Simple" /\ fn = <<"Read">> -> TutorialRead(xs, w, ok, d, a)
      [] kind = "Complex" /\ fn = <<"NewAsset">> -> NewAsset(xs, w, ok, d, a)
      [] kind = "Complex" /\ fn = <<"UpdateOwner">> -> UpdateOwner(xs, w, ok, d, a)
      [] kind = "Complex" /\ fn = <<"UpdateValue">> -> UpdateValue(xs, w, ok, d, a)
      [] kind = "Complex" /\ fn = <<"GetAsset">> -> GetAsset(xs, w, ok, d, a)

\* the declared non-error return type of a function ("none": error only)
ReturnType(kind, fn) ==
    CASE kind = "IntegerSimpleAsset" /\ fn = <<"Read">> -> "int"
      [] kind = "ComplexAsset" /\ fn = <<"ReadValue">> -> "float64"
      [] kind = "ComplexAsset" /\ fn = <<"ReadColours">> -> "[]string"
      [] kind = "Hooked" /\ fn \in {<<"Main">>, <<"Echo">>} -> "int"
      [] kind \in {"PlainSimpleAsset", "SimpleAsset", "ComplexAsset", "Simple"}
           /\ fn = <<"Read">> -> "string"
      [] kind = "Complex" /\ fn = <<"GetAsset">> -> "*defs.BasicAsset"
      [] kind = "systemContract" /\ fn = <<"GetMetadata">> -> "string"
      [] OTHER -> "none"

\* whether the function declares an error as its last return
ReturnsError(kind, fn) ==
    /\ ~(kind = "Hooked" /\ fn \in {<<"Ping">>, <<"Echo">>})
    /\ kind # "systemContract"

----------------------------------------------------------------------------
(* Creating the chaincode: every public function of every contract must    *)
(* match the function format, or creating the chaincode panics.            *)

Context == "ctx"
ErrorType == "error"

\* the declared parameters and returns of a public function
Signature(kind, fn) ==
    CASE kind = "TwoValues" ->
           [params |-> <<Context, "string">>, returns |-> <<"string", "string">>]
      [] kind = "ErrorFirst" ->
           [params |-> <<Context, "string">>, returns |-> <<ErrorType, "string">>]
      [] kind = "LateContext" ->
           [params |-> <<"string", Context>>, returns |-> <<ErrorType>>]
      [] kind = "TwoContexts" ->
           [params |-> <<Context, Context>>, returns |-> <<ErrorType>>]
      [] kind = "Unsupported" ->
           [params |-> <<Context, "map[string]string">>,
            returns |-> <<ErrorType>>]
      [] OTHER ->
           [params |-> <<Context>> \o ParamTypes(kind, fn),
            returns |-> (IF ReturnType(kind, fn) = "none" THEN <<>>
                         ELSE <<ReturnType(kind, fn)>>) \o
                        (IF ReturnsError(kind, fn) THEN <<ErrorType>>
                         ELSE <<>>)]

BasicTypes ==
    {"string", "bool", "int", "int8", "int16", "int32", "int64", "uint",
     "uint8", "uint16", "uint32", "uint64", "float32", "float64"}

\* basic types and arrays / slices, of any depth, of basic types
RECURSIVE Permissible(_)
Permissible(t) ==
    \/ t \in BasicTypes
    \/ Elem(t) # "" /\ Permissible(Elem(t))

\* a pointer to a struct with JSON tags: converted to and from its JSON
JSONTypes == {"*defs.BasicAsset"}

\* the types a function may take in or return
Accepted(t) == Permissible(t) \/ t \in JSONTypes

Positions(ts, t) == {i \in 1..Len(ts) : ts[i] = t}

\* zero or one transaction context, specified first; any number of the
\* other permissible types
ValidParams(ps) ==
    /\ Positions(ps, Context) \subseteq {1}
    /\ \A i \in 1..Len(ps) : ps[i] = Context \/ Accepted(ps[i])

\* a validation that only counts the returns
ValidReturns_CountOnly(rs) == Len(rs) <= 2

\* zero, one or two returns: at most one non-error type and one error, the
\* error last
ValidReturns(rs) ==
    /\ Len(rs) <= 2
    /\ Positions(rs, ErrorType) \subseteq {Len(rs)}
    /\ Cardinality({i \in 1..Len(rs) : rs[i] # ErrorType}) <= 1
    /\ \A i \in 1..Len(rs) : rs[i] = ErrorType \/ Accepted(rs[i])

ValidContract(c) ==
    \A fn \in Functions(c.kind) :
      /\ ValidParams(Signature(c.kind, fn).params)
      /\ ValidReturns(Signature(c.kind, fn).returns)

\* whether CreateNewChaincode accepts the contracts it is passed
Valid(cs) == \A i \in 1..Len(cs) : ValidContract(cs[i])

----------------------------------------------------------------------------
(* The invocation router.                                                  *)

Colons(raw) == {i \in 1..Len(raw) : raw[i] = ":"}

\* namespace and function of a raw name (the names fed carry one ":" at most)
SplitName(raw) ==
    IF Colons(raw) = {} THEN [hasNs |-> FALSE, ns |-> <<>>, fn |-> raw]
    ELSE LET li == CHOOSE i \in Colons(raw) : \A j \in Colons(raw) : j <= i
         IN  [hasNs |-> TRUE, ns |-> SubSeq(raw, 1, li - 1),
              fn |-> SubSeq(raw, li + 1, Len(raw))]

\* a router taking the last contract passed as the default one
DefaultContract_Last(cs) == Len(cs)

\* the contract a call without a namespace goes to: the first one passed
DefaultContract(cs) == 1

\* the namespace a raw name addresses
Namespace(cs, raw) ==
    IF SplitName(raw).hasNs THEN SplitName(raw).ns
    ELSE cs[DefaultContract(cs)].name

\* index of the contract registered under ns (0: none)
FindContract(cs, ns) ==
    IF \E i \in 1..Len(cs) : cs[i].name = ns
    THEN CHOOSE i \in 1..Len(cs) : cs[i].name = ns
    ELSE 0

\* an error that leaves out the namespace asked for
ContractNotFound_Bare(ns) == <<"Contract not found">>

ContractNotFound(ns) == <<"Contract not found with name ">> \o ns

\* an error that leaves out the contract looked in
FunctionNotFound_Bare(fn, ns) == <<"Function ">> \o fn \o <<" not found">>

FunctionNotFound(fn, ns) ==
    <<"Function ">> \o fn \o <<" not found in contract ">> \o ns

\* shim.Success / shim.Error
Success(payload) == [status |-> 200, payload |-> payload, message |-> <<>>]
Failure(msg) == [status |-> 500, payload |-> <<>>, message |-> msg]

\* the functions every contract has from the contractapi.Contract it
\* embeds: getters and setters of its name, its hooks and its transaction
\* context
AdministrativeFunctions ==
    {<<"GetName">>, <<"SetName">>,
     <<"GetBeforeTransaction">>, <<"SetBeforeTransaction">>,
     <<"GetAfterTransaction">>, <<"SetAfterTransaction">>,
     <<"GetUnknownTransaction">>, <<"SetUnknownTransaction">>,
     <<"GetTransactionContextHandler">>, <<"SetTransactionContextHandler">>}

\* methods that are not public
Unexported == {<<"setMetadata">>}

\* every method of a contract struct, its own and the embedded ones
Methods(kind) ==
    Functions(kind) \cup AdministrativeFunctions \cup
      (IF kind = "systemContract" THEN {<<"setMetadata">>} ELSE {})

\* a scan that takes every method of the struct as callable
Callable_EveryMethod(kind) == Methods(kind)

\* the functions of a contract that a call can name: its public functions
\* without the administrative ones
Callable(kind) ==
    {fn \in Methods(kind) : fn \notin Unexported} \ AdministrativeFunctions

\* what the lookup of fn in contract c resolves to
Lookup(c, fn) ==
    IF fn \in Callable(c.kind) THEN "main"
    ELSE IF c.unknown # None THEN "unknown"
    ELSE "none"

\* a router that checks the arguments ahead of the before transaction
AfterLookup_ArgsFirst(t) == IF t = "main" THEN "convert" ELSE "before"

\* where the router goes once the lookup resolved: the before transaction
\* comes ahead of the check of the arguments
AfterLookup(t) == "before"

\* where the router goes once the before transaction returned no error
AfterBefore(t) == IF t = "main" THEN "convert" ELSE "unknown"

\* a router that skips the before transaction ahead of the unknown handler
RunsBefore_MainOnly(c, t) == c.before # None /\ t = "main"

\* whether the before transaction runs ahead of what the lookup resolved to
RunsBefore(c, t) == c.before # None

\* a router that never runs the after transaction
RunsAfter_Never(c, t) == FALSE

\* a router that skips the after transaction behind the unknown handler
RunsAfter_MainOnly(c, t) == c.after # None /\ t = "main"

\* whether the after transaction runs once function or handler succeeded
RunsAfter(c, t) == c.after # None

\* what the before transaction is passed besides the context: as many of
\* the call's arguments, from the first on, as it declares parameters
BeforeArgs(h, ps) ==
    SubSeq(ps, 1, IF HookParams(h) < Len(ps) THEN HookParams(h) ELSE Len(ps))

\* what the after transaction is passed besides the context: the value the
\* function returned, if it declares a parameter for it
AfterArgs(h, ps, v) == IF HookParams(h) = 1 THEN <<v>> ELSE <<>>

\* positions (1-based, the context left out) of the arguments that fail
BadArgs(types, ps) ==
    {i \in 1..Len(types) : ~ConvertArg(types[i], ps[i]).ok}

WrongCount(types, ps) ==
    <<"Incorrect number of params. Expected ">> \o Itoa(Len(types))
      \o <<", received ">> \o Itoa(Len(ps))

ConversionError(types, i) ==
    <<"Error converting parameter ">> \o Itoa(i) \o <<" to type ", types[i]>>

\* the raw arguments against the declared parameters
Convert(types, ps) ==
    IF Len(ps) # Len(types)
    THEN [ok |-> FALSE, xs |-> <<>>, msg |-> WrongCount(types, ps)]
    ELSE IF BadArgs(types, ps) # {}
    THEN LET i == CHOOSE x \in BadArgs(types, ps) :
                      \A y \in BadArgs(types, ps) : x <= y
         IN  [ok |-> FALSE, xs |-> <<>>, msg |-> ConversionError(types, i)]
    ELSE [ok |-> TRUE, msg |-> <<>>,
          xs |-> [i \in 1..Len(types) |-> ConvertArg(types[i], ps[i]).val]]

----------------------------------------------------------------------------
(* The calls the peer sends.                                               *)

K1 == <<"K1">>
K2 == <<"K2">>

Named(ns, fn) == <<ns, ":", fn>>

RawNames(cc) ==
    CASE cc \in BadChaincodes ->
           {<<"Create">>, Named("SimpleAsset", "Create"),
            Named("SimpleAsset", "Read")}
      [] cc \in {"simple", "extended"} ->
           {<<>>, <<"Create">>, <<"Read">>, Named("SimpleAsset", "Create"),
            Named("SimpleAsset", "Update"), Named("SimpleAsset", "Read"),
            Named("SimpleAsset", "BadFunction"), Named("badname", "Read"),
            Named("SimpleAsset", "SetName"), Named("SimpleAsset", "getAsset"),
            Named("org.hyperledger.fabric", "GetMetadata"),
            Named("org.hyperledger.fabric", "setMetadata")}
      [] cc = "integer" ->
           {<<"Create">>, <<"Read">>, Named("SimpleAsset", "Create"),
            Named("SimpleAsset", "Update"), Named("SimpleAsset", "Read"),
            Named("SimpleAsset", "BadFunction"), Named("badname", "Read")}
      [] cc = "multi" ->
           {<<"Read">>, <<"ReadColours">>, Named("simpleasset", "Create"),
            Named("simpleasset", "Update"), Named("simpleasset", "Read"),
            Named("simpleasset", "BadFunction"),
            Named("complexasset", "Create"), Named("complexasset", "Update"),
            Named("complexasset", "AddColours"),
            Named("complexasset", "UpdateValue"),
            Named("complexasset", "ReadColours"),
            Named("complexasset", "ReadValue"),
            Named("complexasset", "Read"), Named("badname", "Read")}
      [] cc = "hooked" ->
           {<<"Main">>, Named("hooked", "Main"), Named("hooked", "Ping"),
            Named("hooked", "Echo"), Named("hooked", "Other"),
            Named("badname", "Main")}
      [] cc = "tutorial" ->
           {<<"Create">>, Named("SimpleContract", "Create"),
            Named("SimpleContract", "Read"),
            Named("SimpleContract", "BadFunction"),
            Named("ComplexContract", "NewAsset"),
            Named("ComplexContract", "UpdateOwner"),
            Named("ComplexContract", "UpdateValue"),
            Named("ComplexContract", "GetAsset")}

RawParams(cc) ==
    CASE cc \in BadChaincodes -> {<<K1>>}
      [] cc \in {"simple", "extended"} ->
           {<<>>, <<K1>>, <<K2>>, <<K1, <<"Updated">>>>, <<K1, <<>>>>}
      [] cc = "integer" ->
           {<<K1>>, <<K1, <<"1", "2">>>>, <<K1, <<"-", "5">>>>,
            <<K1, <<"Updated">>>>, <<K1, <<"1">>, <<"2">>>>,
            <<K1, Itoa(MaxInt)>>}
      [] cc = "multi" ->
           {<<K1>>, <<K2>>, <<K1, <<"Updated">>>>, <<K1, <<"1", ".", "5">>>>,
            <<K1, <<"[", Quote, "red", Quote, ",", " ", Quote, "blue", Quote, "]">>>>,
            <<K1, <<"{", "}">>>>}
      [] cc = "hooked" -> {<<>>, <<K1>>, <<<<"7">>>>, <<<<"-", "1", "2">>>>}
      [] cc = "tutorial" ->
           {<<K1>>, <<K1, <<"OWNER_2">>>>, <<K1, <<"5">>>>,
            <<K1, <<"OWNER_1">>, <<"1", "0", "0">>>>}

----------------------------------------------------------------------------
(* One call through the router.  A call is the record of everything the    *)
(* router holds while it serves it; each step takes the call on by one     *)
(* position.  plan fixes what the Hooked contract's developer code         *)
(* returns in this call.                                                   *)

HookNames == {"before", "main", "after", "unknown"}

Plans(cc) ==
    IF cc = "hooked" THEN [HookNames -> Choices]
    ELSE {[h \in HookNames |-> "ok"]}

\* a router that hands the context of the last call to the next one
NewContext_Reused == ctx

\* the transaction context a call starts with: a new one, its data unset
NewContext == Nil

\* the call as the peer sends it, with a new transaction context
NewCall(name, ps, ok, pl, w, a) ==
    [pc |-> "resolve", rawName |-> name, params |-> ps, stubOk |-> ok,
     plan |-> pl, contract |-> 0, target |-> "none", ctx |-> NewContext,
     typed |-> <<>>, value |-> [type |-> "none", val |-> <<>>],
     trace |-> <<>>, returns |-> <<>>, start |-> [world |-> w, ca |-> a],
     errors |-> 0, outcome |-> <<>>, world |-> w, ca |-> a]

\* a router that drops the errors hooks and functions return
IsError_Never(e) == FALSE

\* the non-nil check on a returned error
IsError(e) == ~e.nil

\* a router that clears the world state when a call fails
Fail_Wipes(c, msg) ==
    [c EXCEPT !.errors = @ + 1,
              !.outcome = Append(@, Failure(msg)),
              !.world = <<>>,
              !.pc = "done"]

\* the call ends with an error response
Fail(c, msg) ==
    [c EXCEPT !.errors = @ + 1,
              !.outcome = Append(@, Failure(msg)),
              !.pc = "done"]

\* the call ends with a success response carrying the returned value
Succeed(c) ==
    [c EXCEPT !.outcome = Append(@, Success(FormatValue(c.value.type, c.value.val))),
              !.pc = "done"]

\* a hook or handler ran: which one, of which contract, and whether it
\* returned a non-nil error; its effects on world state, context, receiver
Ran(c, step, who, args, r) ==
    [c EXCEPT !.trace = Append(@, [step |-> step, contract |-> c.contract,
                                   fn |-> who, failed |-> ~r.err.nil]),
              !.returns = Append(@, [passed |-> args, ctxIn |-> c.ctx,
                                     ctxOut |-> r.data, worldIn |-> c.world,
                                     worldOut |-> r.world, caIn |-> c.ca,
                                     caOut |-> r.ca, err |-> r.err,
                                     val |-> r.val]),
              !.world = r.world,
              !.ctx = r.data,
              !.ca = r.ca]

ResolveStep(cs, c) ==
    LET ns == Namespace(cs, c.rawName)
        i  == FindContract(cs, ns)
    IN  IF i = 0 THEN Fail(c, ContractNotFound(ns))
        ELSE [c EXCEPT !.contract = i, !.pc = "lookup"]

LookupStep(cs, c) ==
    LET fn == SplitName(c.rawName).fn
        t  == Lookup(cs[c.contract], fn)
    IN  IF t = "none" THEN Fail(c, FunctionNotFound(fn, cs[c.contract].name))
        ELSE [c EXCEPT !.target = t, !.pc = AfterLookup(t)]

BeforeStep(cs, c) ==
    LET k == cs[c.contract]
    IN  IF ~RunsBefore(k, c.target) THEN [c EXCEPT !.pc = AfterBefore(c.target)]
        ELSE LET args == BeforeArgs(k.before, c.params)
                 r == CallHook(k.before, c.plan["before"], c.rawName, c.params,
                               args, c.world, c.stubOk, c.ctx, c.ca)
                 d == Ran(c, "before", k.before, args, r)
             IN  IF IsError(r.err) THEN Fail(d, r.err.msg)
                 ELSE [d EXCEPT !.pc = AfterBefore(c.target)]

ConvertStep(cs, c) ==
    LET fn == SplitName(c.rawName).fn
        cv == Convert(ParamTypes(cs[c.contract].kind, fn), c.params)
    IN  IF cv.ok THEN [c EXCEPT !.typed = cv.xs, !.pc = "main"]
        ELSE Fail(c, cv.msg)

\* the call after its named function returned r
Returned(c, kind, fn, r) ==
    LET d == Ran(c, "main", fn, c.typed, r)
    IN  IF IsError(r.err) THEN Fail(d, r.err.msg)
        ELSE [d EXCEPT !.value = [type |-> ReturnType(kind, fn), val |-> r.val],
                       !.pc = "after"]

MainStep(cs, c) ==
    LET k  == cs[c.contract]
        fn == SplitName(c.rawName).fn
    IN  Returned(c, k.kind, fn,
                 CallFunction(k.kind, fn, c.plan["main"], c.typed, c.world,
                              c.stubOk, c.ctx, c.ca))

UnknownStep(cs, c) ==
    LET k == cs[c.contract]
        r == CallHook(k.unknown, c.plan["unknown"], c.rawName, c.params, <<>>,
                      c.world, c.stubOk, c.ctx, c.ca)
        d == Ran(c, "unknown", k.unknown, <<>>, r)
    IN  IF IsError(r.err) THEN Fail(d, r.err.msg)
        ELSE [d EXCEPT !.value = [type |-> HookReturnType(k.unknown),
                                  val |-> r.val],
                       !.pc = "after"]

\* a router that answers with the function's value whatever the after
\* transaction returns
AfterStep_KeepsSuccess(cs, c) ==
    LET k == cs[c.contract]
    IN  IF ~RunsAfter(k, c.target) THEN Succeed(c)
        ELSE LET args == AfterArgs(k.after, c.params, c.value.val)
                 r == CallHook(k.after, c.plan["after"], c.rawName, c.params,
                               args, c.world, c.stubOk, c.ctx, c.ca)
             IN  Succeed(Ran(c, "after", k.after, args, r))

AfterStep(cs, c) ==
    LET k == cs[c.contract]
    IN  IF ~RunsAfter(k, c.target) THEN Succeed(c)
        ELSE LET args == AfterArgs(k.after, c.params, c.value.val)
                 r == CallHook(k.after, c.plan["after"], c.rawName, c.params,
                               args, c.world, c.stubOk, c.ctx, c.ca)
                 d == Ran(c, "after", k.after, args, r)
             IN  IF IsError(r.err) THEN Fail(d, r.err.msg)
                 ELSE Succeed(d)

\* the step the router takes from its position
Step(cs, c) ==
    CASE c.pc = "resolve" -> ResolveStep(cs, c)
      [] c.pc = "lookup" -> LookupStep(cs, c)
      [] c.pc = "before" -> BeforeStep(cs, c)
      [] c.pc = "convert" -> ConvertStep(cs, c)
      [] c.pc = "main" -> MainStep(cs, c)
      [] c.pc = "unknown" -> UnknownStep(cs, c)
      [] c.pc = "after" -> AfterStep(cs, c)

\* the call served to its end
RECURSIVE Serve(_, _)
Serve(cs, c) == IF c.pc = "done" THEN c ELSE Serve(cs, Step(cs, c))

----------------------------------------------------------------------------
(* State machine: the peer sends one call at a time and the router takes   *)
(* it through its steps.                                                   *)

Init ==
    /\ chaincode \in Chaincodes
    /\ world = <<>>
    /\ pc = "new"
    /\ rawName = <<>>
    /\ params = <<>>
    /\ stubOk = TRUE
    /\ plan = [h \in HookNames |-> "ok"]
    /\ contract = 0
    /\ target = "none"
    /\ ctx = Nil
    /\ ca = ZeroAsset
    /\ typed = <<>>
    /\ value = [type |-> "none", val |-> <<>>]
    /\ trace = <<>>
    /\ returns = <<>>
    /\ start = [world |-> <<>>, ca |-> ZeroAsset]
    /\ errors = 0
    /\ outcome = <<>>
    /\ calls = 0
    /\ request = "none"

\* the functions of a contract the metadata names, were it written from
\* every method of the struct
Described_EveryMethod(kind) == Methods(kind)

\* the functions of a contract the metadata names: the ones the scan of
\* the router found callable
Described(kind) == Callable(kind)

\* the names of a set, one after the other with commas between
RECURSIVE Listing(_)
Listing(names) ==
    IF names = {} THEN <<>>
    ELSE LET n == CHOOSE x \in names : TRUE
         IN  IF names = {n} THEN n ELSE n \o <<",">> \o Listing(names \ {n})

\* the description of the contracts from position i on: for each contract
\* its name and the names of its functions
RECURSIVE Describe(_, _)
Describe(cs, i) ==
    IF i > Len(cs) THEN <<>>
    ELSE <<"{">> \o cs[i].name \o <<":">> \o Listing(Described(cs[i].kind))
           \o <<"}">> \o Describe(cs, i + 1)

\* the metadata the contract API hands the system contract
Metadata(cs) == Describe(cs, 1)

\* the contracts of the chaincode: those main passed and the system contract
Contracts == Registered(chaincode) \o <<SystemContract>>
Current == Contracts[contract]
Fn == SplitName(rawName).fn

\* the call in flight
Call ==
    [pc |-> pc, rawName |-> rawName, params |-> params, stubOk |-> stubOk,
     plan |-> plan, contract |-> contract, target |-> target, ctx |-> ctx,
     typed |-> typed, value |-> value, trace |-> trace, returns |-> returns,
     start |-> start, errors |-> errors, outcome |-> outcome, world |-> world,
     ca |-> ca]

Take(c) ==
    /\ pc' = c.pc
    /\ rawName' = c.rawName
    /\ params' = c.params
    /\ stubOk' = c.stubOk
    /\ plan' = c.plan
    /\ contract' = c.contract
    /\ target' = c.target
    /\ ctx' = c.ctx
    /\ typed' = c.typed
    /\ value' = c.value
    /\ trace' = c.trace
    /\ returns' = c.returns
    /\ start' = c.start
    /\ errors' = c.errors
    /\ outcome' = c.outcome
    /\ world' = c.world
    /\ ca' = c.ca
    /\ UNCHANGED <<chaincode, calls>>

\* a step of the call in progress
Become(c) == Take(c) /\ UNCHANGED request

\* main(): the contracts are passed to CreateNewChaincode, which panics
\* when one of them has a function that does not match the format
CreateNewChaincode ==
    /\ pc = "new"
    /\ pc' = (IF Valid(Contracts) THEN "idle" ELSE "panicked")
    /\ ca' = (IF Valid(Contracts)
              THEN setMetadata(<<Metadata(Contracts)>>, world, TRUE, ctx, ca).ca
              ELSE ca)
    /\ start' = [start EXCEPT !.ca = ca']
    /\ UNCHANGED <<chaincode, world, rawName, params, stubOk, plan, contract,
                   target, ctx, typed, value, trace, returns, errors, outcome,
                   calls,
                   request>>

Receive ==
    /\ pc = "idle"
    /\ calls < MaxCalls
    /\ request' = "invoke"
    /\ \E name \in RawNames(chaincode), ps \in RawParams(chaincode),
          ok \in BOOLEAN, pl \in Plans(chaincode) :
         Take(NewCall(name, ps, ok, pl, world, ca))

\* an Init that hands every request to Invoke
InitStep_AlwaysInvokes(c) == c

\* Init: a request that names no function is answered with success and
\* nothing is called; any other request is served as Invoke serves it
InitStep(c) ==
    IF c.rawName = <<>>
    THEN [c EXCEPT !.pc = "done", !.outcome = <<Success(<<>>)>>]
    ELSE c

\* what the peer sends with instantiate: no argument, or a function to call
InitArgs(cc) ==
    {[name |-> <<>>, params |-> <<>>],
     [name |-> <<"Create">>, params |-> <<K1>>]}

\* the peer instantiates the chaincode, before any invoke
Instantiate ==
    /\ pc = "idle"
    /\ calls = 0
    /\ request' = "init"
    /\ \E args \in InitArgs(chaincode), ok \in BOOLEAN,
          pl \in Plans(chaincode) :
         Take(InitStep(NewCall(args.name, args.params, ok, pl, world, ca)))

ResolveContract == pc = "resolve" /\ Become(ResolveStep(Contracts, Call))

LookupFunction == pc = "lookup" /\ Become(LookupStep(Contracts, Call))

BeforeTransaction == pc = "before" /\ Become(BeforeStep(Contracts, Call))

ConvertArgs == pc = "convert" /\ Become(ConvertStep(Contracts, Call))

MainTransaction == pc = "main" /\ Become(MainStep(Contracts, Call))

UnknownTransaction == pc = "unknown" /\ Become(UnknownStep(Contracts, Call))

AfterTransaction == pc = "after" /\ Become(AfterStep(Contracts, Call))

\* the response goes back to the peer
Respond ==
    /\ pc = "done"
    /\ pc' = "idle"
    /\ calls' = calls + 1
    /\ request' = "none"
    /\ UNCHANGED <<chaincode, world, rawName, params, stubOk, plan, contract,
                   target, ctx, ca, typed, value, trace, returns, start,
                   errors, outcome>>

Next ==
    \/ CreateNewChaincode
    \/ Instantiate
    \/ Receive
    \/ ResolveContract
    \/ LookupFunction
    \/ BeforeTransaction
    \/ ConvertArgs
    \/ MainTransaction
    \/ UnknownTransaction
    \/ AfterTransaction
    \/ Respond

Spec == Init /\ [][Next]_vars

----------------------------------------------------------------------------
(* The converter on its own: a value of an array or slice type is encoded  *)
(* as a function's return value is, and the text is decoded as a raw       *)
(* argument for a parameter of the same type is.                           *)

ConvertedTypes == {"[]string", "[][]string", "[]int", "[2]int", "[][2]int"}

Leaves(type) ==
    IF type = "string" THEN {<<>>, <<"b", "c">>} ELSE {0 - 12, 7}

\* the sequences of n elements of S
RECURSIVE Tuples(_, _)
Tuples(S, n) ==
    IF n = 0 THEN {<<>>}
    ELSE {Append(es, e) : es \in Tuples(S, n - 1), e \in S}

\* the values of a type: a slice is nil or holds up to MaxLen elements, an
\* array holds as many as it is long
RECURSIVE Values(_)
Values(type) ==
    IF Elem(type) = "" THEN Leaves(type)
    ELSE LET lens == IF ArrayLen(type) = 0 THEN 0..MaxLen
                     ELSE {ArrayLen(type)}
         IN  (IF ArrayLen(type) = 0 THEN {NilSlice} ELSE {}) \cup
             {Slice(es) : es \in UNION {Tuples(Values(Elem(type)), n) :
                                          n \in lens}}

InitConverter ==
    /\ chaincode = "converter"
    /\ world = <<>>
    /\ pc = "value"
    /\ rawName = <<>>
    /\ params = <<>>
    /\ stubOk = TRUE
    /\ plan = [h \in HookNames |-> "ok"]
    /\ contract = 0
    /\ target = "none"
    /\ ctx = Nil
    /\ ca = ZeroAsset
    /\ typed = <<>>
    /\ \E t \in ConvertedTypes :
         \E v \in Values(t) : value = [type |-> t, val |-> v]
    /\ trace = <<>>
    /\ returns = <<>>
    /\ start = [world |-> <<>>, ca |-> ZeroAsset]
    /\ errors = 0
    /\ outcome = <<>>
    /\ calls = 0
    /\ request = "none"

\* the returned value becomes the payload of the success response
EncodeValue ==
    /\ pc = "value"
    /\ pc' = "encoded"
    /\ outcome' = <<Success(FormatValue(value.type, value.val))>>
    /\ UNCHANGED <<chaincode, world, rawName, params, stubOk, plan, contract,
                   target, ctx, ca, typed, value, trace, returns, start,
                   errors, calls,
                   request>>

\* the payload is sent back as the raw argument of a parameter of the type
DecodeText ==
    /\ pc = "encoded"
    /\ pc' = "decoded"
    /\ params' = <<outcome[1].payload>>
    /\ LET cv == ConvertArg(value.type, outcome[1].payload)
       IN  /\ typed' = <<cv.val>>
           /\ errors' = IF cv.ok THEN 0 ELSE 1
    /\ UNCHANGED <<chaincode, world, rawName, stubOk, plan, contract, target,
                   ctx, ca, value, trace, returns, start, outcome, calls,
                   request>>

NextConverter == EncodeValue \/ DecodeText

ConverterSpec == InitConverter /\ [][NextConverter]_vars

----------------------------------------------------------------------------
(* Two calls of complexasset at once.  The host serves each invocation on  *)
(* a thread of its own; both threads call methods of the one ComplexAsset  *)
(* struct that main registered, so its fields are read and written by      *)
(* both without a lock.  Here pc, rawName, typed, ctx, value and outcome   *)
(* hold one entry per call.  json.Unmarshal writes the fields one by one   *)
(* in the order of the stored text, json.Marshal reads them one by one in  *)
(* the order of the declaration, and the two calls take these steps in     *)
(* any order.                                                              *)

Calls == {1, 2}

\* the statements of a function that touch the world state or the struct
Program(fn) ==
    CASE fn = <<"UpdateOwner">> ->
           <<"getAsset", "setOwner", "setColours", "setValue", "store",
             "getOwner", "getColours", "getValue", "put">>
      [] fn \in {<<"UpdateValue">>, <<"AddColours">>} ->
           <<"getAsset", "setOwner", "setColours", "setValue", "load", "store",
             "getOwner", "getColours", "getValue", "put">>
      [] fn = <<"Read">> ->
           <<"getAsset", "setOwner", "setColours", "setValue",
             "getOwner", "getValue", "getColours", "return">>

\* the statement call p is at ("end": the call has returned)
At(p) ==
    IF pc[p] > Len(Program(rawName[p])) THEN "end"
    ELSE Program(rawName[p])[pc[p]]

\* the converted arguments of the functions, sent for the asset k
ArgsOf(fn, k) ==
    CASE fn = <<"UpdateOwner">> -> <<k, <<"Other">>>>
      [] fn = <<"UpdateValue">> -> <<k, ParseFloat(<<"2">>)>>
      [] fn = <<"AddColours">> -> <<k, Slice(<< <<"green">> >>)>>
      [] fn = <<"Read">> -> <<k>>

\* two assets as earlier calls of Create, UpdateOwner, UpdateValue and
\* AddColours leave them
Asset1 ==
    [ZeroAsset EXCEPT !.owner = <<"Regulator">>, !.nilColours = FALSE]
Asset2 ==
    [ZeroAsset EXCEPT !.owner = <<"Updated">>,
                      !.colours = << <<"red">>, <<"blue">> >>,
                      !.nilColours = FALSE,
                      !.value = ParseFloat(<<"1", ".", "5">>)]

InitConcurrent ==
    /\ chaincode = "concurrent"
    /\ world = [k \in {K1, K2} |->
                  Bytes(EncodeAsset(IF k = K1 THEN Asset1 ELSE Asset2))]
    /\ pc = <<1, 1>>
    /\ rawName \in {<<f, g>> : f, g \in {<<"UpdateOwner">>, <<"UpdateValue">>,
                                           <<"AddColours">>, <<"Read">>}}
    /\ params = <<>>
    /\ stubOk = TRUE
    /\ plan = [h \in HookNames |-> "ok"]
    /\ contract = 2
    /\ target = "main"
    /\ ctx = <<Nil, Nil>>
    /\ ca \in {Asset1, Asset2}
    /\ typed = <<ArgsOf(rawName[1], K1), ArgsOf(rawName[2], K2)>>
    /\ value = <<ZeroAsset, ZeroAsset>>
    /\ trace = <<>>
    /\ returns = <<>>
    /\ start = [world |-> world, ca |-> ca]
    /\ errors = 0
    /\ outcome = << <<>>, <<>> >>
    /\ calls = 0
    /\ request = "invoke"

\* call p moves on to its next statement
Advance(p) == pc' = [pc EXCEPT ![p] = @ + 1]

\* the asset the text call p read decodes to
Decoded(p) == DecodeAsset(ctx[p].bytes, ZeroAsset).ca

\* the before transaction: ctx.data = GetState(assetID)
GetAssetOf ==
    \E p \in Calls :
      /\ At(p) = "getAsset"
      /\ ctx' = [ctx EXCEPT ![p] = GetState(world, stubOk, typed[p][1]).val]
      /\ Advance(p)
      /\ UNCHANGED <<chaincode, world, rawName, params, stubOk, plan, contract,
                     target, ca, typed, value, trace, returns, start, errors,
                     outcome, calls, request>>

\* json.Unmarshal(existing, ca) sets one field of the struct
UnmarshalField ==
    \E p \in Calls :
      /\ At(p) \in {"setOwner", "setColours", "setValue"}
      /\ ca' = CASE At(p) = "setOwner" -> [ca EXCEPT !.owner = Decoded(p).owner]
                 [] At(p) = "setColours" ->
                      [ca EXCEPT !.colours = Decoded(p).colours,
                                 !.nilColours = Decoded(p).nilColours]
                 [] At(p) = "setValue" -> [ca EXCEPT !.value = Decoded(p).value]
      /\ Advance(p)
      /\ UNCHANGED <<chaincode, world, rawName, params, stubOk, plan, contract,
                     target, ctx, typed, value, trace, returns, start, errors,
                     outcome, calls, request>>

\* ca.Value += ..., ca.Colours = append(ca.Colours, ...): the field is read
LoadField ==
    \E p \in Calls :
      /\ At(p) = "load"
      /\ value' = [value EXCEPT ![p] = [@ EXCEPT !.colours = ca.colours,
                                                 !.nilColours = ca.nilColours,
                                                 !.value = ca.value]]
      /\ Advance(p)
      /\ UNCHANGED <<chaincode, world, rawName, params, stubOk, plan, contract,
                     target, ctx, ca, typed, trace, returns, start, errors,
                     outcome, calls, request>>

\* ca.Owner = newOwner, and the second half of ca.Value += ... and of
\* ca.Colours = append(ca.Colours, ...): the field is written
StoreField ==
    \E p \in Calls :
      /\ At(p) = "store"
      /\ ca' = CASE rawName[p] = <<"UpdateOwner">> ->
                      [ca EXCEPT !.owner = typed[p][2]]
                 [] rawName[p] = <<"UpdateValue">> ->
                      [ca EXCEPT !.value = value[p].value + typed[p][2]]
                 [] rawName[p] = <<"AddColours">> ->
                      [ca EXCEPT !.colours = value[p].colours \o typed[p][2].elems,
                                 !.nilColours = value[p].nilColours
                                                  /\ typed[p][2].elems = <<>>]
      /\ Advance(p)
      /\ UNCHANGED <<chaincode, world, rawName, params, stubOk, plan, contract,
                     target, ctx, typed, value, trace, returns, start, errors,
                     outcome, calls, request>>

\* json.Marshal(&ca) and the expression Read returns read one field
MarshalField ==
    \E p \in Calls :
      /\ At(p) \in {"getOwner", "getColours", "getValue"}
      /\ value' = [value EXCEPT ![p] =
                     CASE At(p) = "getOwner" -> [@ EXCEPT !.owner = ca.owner]
                       [] At(p) = "getColours" ->
                            [@ EXCEPT !.colours = ca.colours,
                                      !.nilColours = ca.nilColours]
                       [] At(p) = "getValue" -> [@ EXCEPT !.value = ca.value]]
      /\ Advance(p)
      /\ UNCHANGED <<chaincode, world, rawName, params, stubOk, plan, contract,
                     target, ctx, ca, typed, trace, returns, start, errors,
                     outcome, calls, request>>

\* ca.put: PutState(assetID, caJSON), and the function returns nil
PutAsset ==
    \E p \in Calls :
      /\ At(p) = "put"
      /\ world' = PutState(world, stubOk, typed[p][1],
                           EncodeAsset(value[p])).world
      /\ outcome' = [outcome EXCEPT ![p] = <<Success(<<>>)>>]
      /\ Advance(p)
      /\ UNCHANGED <<chaincode, rawName, params, stubOk, plan, contract, target,
                     ctx, ca, typed, value, trace, returns, start, errors,
                     calls, request>>

\* Read returns the owner, the value and the colours it read
ReturnAsset ==
    \E p \in Calls :
      /\ At(p) = "return"
      /\ outcome' = [outcome EXCEPT ![p] =
                       <<Success(value[p].owner \o <<" - ">>
                                   \o FormatFloat(value[p].value) \o <<" - ">>
                                   \o FmtArgs(value[p].colours))>>]
      /\ Advance(p)
      /\ UNCHANGED <<chaincode, world, rawName, params, stubOk, plan, contract,
                     target, ctx, ca, typed, value, trace, returns, start,
                     errors, calls, request>>

NextConcurrent ==
    \/ GetAssetOf
    \/ UnmarshalField
    \/ LoadField
    \/ StoreField
    \/ MarshalField
    \/ PutAsset
    \/ ReturnAsset

ConcurrentSpec == InitConcurrent /\ [][NextConcurrent]_vars

----------------------------------------------------------------------------
(* Properties.                                                             *)

Steps == [i \in 1..Len(trace) |-> trace[i].step]

Count(step) == Cardinality({i \in 1..Len(trace) : trace[i].step = step})

Done == pc = "done"

Failed == Len(outcome) = 1 /\ outcome[1].status = 500
Succeeded == Len(outcome) = 1 /\ outcome[1].status = 200

\* the call reached an existing function of a contract with a before and
\* an after transaction
HookedCall ==
    /\ contract # 0
    /\ target = "main"
    /\ Current.before # None
    /\ Current.after # None

\* C1: in a call to an existing function of a contract with a before
\* transaction B, a function M and an after transaction A, the steps run so
\* far are a prefix of B, M, A (so none runs twice or out of order); when
\* the call is over B has run, M and A did not run if B returned an error,
\* A did not run if M returned an error, and if M ran and neither B nor M
\* returned an error then B, M and A each ran exactly once, in that order.
C1_HookOrder ==
    HookedCall =>
      /\ \E n \in 0..3 : Steps = SubSeq(<<"before", "main", "after">>, 1, n)
      /\ Done =>
           /\ Len(trace) >= 1
           /\ trace[1].failed => Len(trace) = 1
           /\ (Len(trace) >= 2 /\ trace[2].failed) => Len(trace) = 2
           /\ (Len(trace) >= 2 /\ ~trace[1].failed /\ ~trace[2].failed) =>
                Steps = <<"before", "main", "after">>

\* a call in which B, M and A all ran and the call succeeded
C1_Witness ==
    /\ HookedCall
    /\ Done
    /\ Steps = <<"before", "main", "after">>
    /\ ~trace[3].failed
    /\ Succeeded

InFlight == pc \in {"resolve", "lookup", "before", "convert", "main", "unknown", "after"}

\* C2: while a call is being served no response exists; once it is done
\* there is exactly one response, it is a success (status 200, no message)
\* or a failure (status 500, no payload), and it is a failure whenever a
\* hook or function returned a non-nil error or the router raised one
\* (contract or function not found, arguments rejected); a failure stands
\* for exactly one such error.
C2_OneOutcome ==
    /\ InFlight => outcome = <<>>
    /\ Done =>
         /\ Len(outcome) = 1
         /\ outcome[1].status \in {200, 500}
         /\ outcome[1].status = 200 => outcome[1].message = <<>>
         /\ outcome[1].status = 500 => outcome[1].payload = <<>>
         /\ (errors > 0 \/ \E i \in 1..Len(trace) : trace[i].failed) => Failed
         /\ Failed => errors = 1

\* a call in which the function returned an error after the before
\* transaction had passed, and the response is that failure
C2_Witness ==
    /\ Done
    /\ Steps = <<"before", "main">>
    /\ trace[2].failed
    /\ Failed
    /\ outcome[1].message = <<"main failed">>

----------------------------------------------------------------------------

BareNames == {n \in RawNames(chaincode) : ~SplitName(n).hasNs}

\* the raw name with the first registered contract's name put in front
Prefixed(raw) == Contracts[1].name \o <<":">> \o raw

\* the call (name, ps, ok, pl) served from the current world state
Served(name, ps, ok, pl) == Serve(Contracts, NewCall(name, ps, ok, pl, world, ca))

StatusOf(c) == [i \in 1..Len(c.outcome) |-> c.outcome[i].status]

\* C3 as stated: between calls, every call with a bare name has the same
\* response as the same call with the first contract's name in front.
C3_SameOutcome ==
    pc = "idle" =>
      \A n \in BareNames, ps \in RawParams(chaincode), ok \in BOOLEAN,
         pl \in Plans(chaincode) :
        Served(n, ps, ok, pl).outcome = Served(Prefixed(n), ps, ok, pl).outcome

\* C3: a call with a bare name is served by the first registered contract
\* only: every hook and function that runs belongs to it; served bare or
\* with that contract's name in front, the call runs the same hooks and
\* function, leaves the same world state and context, ends with the same
\* status, and with the same response whenever the function exists on that
\* contract (an unknown handler may echo the name as it was sent); bare
\* ReadColours with simpleasset first runs simpleasset's unknown handler
\* and no function of complexasset.
C3_DefaultContract ==
    /\ (~SplitName(rawName).hasNs /\ contract # 0) =>
         /\ contract = 1
         /\ \A i \in 1..Len(trace) : trace[i].contract = 1
    /\ pc = "idle" =>
         \A n \in BareNames, ps \in RawParams(chaincode), ok \in BOOLEAN,
            pl \in Plans(chaincode) :
           LET bare == Served(n, ps, ok, pl)
               full == Served(Prefixed(n), ps, ok, pl)
           IN  /\ bare.contract = 1
               /\ bare.contract = full.contract
               /\ bare.target = full.target
               /\ bare.trace = full.trace
               /\ bare.world = full.world
               /\ bare.ctx = full.ctx
               /\ bare.ca = full.ca
               /\ StatusOf(bare) = StatusOf(full)
               /\ bare.target = "main" => bare.outcome = full.outcome
    /\ (Done /\ chaincode = "multi" /\ rawName = <<"ReadColours">>) =>
         /\ Count("main") = 0
         /\ \A i \in 1..Len(trace) :
              trace[i].step = "unknown" => trace[i].fn = "handleSimpleUnknown"
         /\ Failed
         /\ (Len(trace) = 2) =>
              outcome[1].message =
                <<"Unknown function name ", "ReadColours",
                  " passed to simple asset with args ">> \o FmtArgs(params)

\* bare ReadColours was sent to simpleasset + complexasset and simpleasset's
\* unknown handler answered it
C3_Witness ==
    /\ chaincode = "multi"
    /\ Done
    /\ rawName = <<"ReadColours">>
    /\ Steps = <<"before", "unknown">>
    /\ trace[2].fn = "handleSimpleUnknown"
    /\ trace[2].contract = 1
    /\ Failed

----------------------------------------------------------------------------

Ns == SplitName(rawName).ns

UnknownMessage(who) ==
    <<"Unknown function name ">> \o rawName \o <<who>> \o FmtArgs(params)

\* C4: a call ns:fn stays inside the contract registered as ns: the
\* resolved contract carries that name, every hook and function that runs
\* is that contract's, a function runs only if that contract has it, and a
\* name only another contract has (complexasset:Update) is answered by
\* ns's own unknown handler, as simpleasset's and complexasset's messages
\* tell.
C4_OwnContractOnly ==
    (SplitName(rawName).hasNs /\ contract # 0) =>
      /\ Current.name = Ns
      /\ \A i \in 1..Len(trace) :
           /\ trace[i].contract = contract
           /\ trace[i].step = "main" =>
                (Fn \in Functions(Current.kind) /\ trace[i].fn = Fn)
           /\ trace[i].step = "unknown" =>
                (Fn \notin Functions(Current.kind) /\ trace[i].fn = Current.unknown)
      /\ (Done /\ chaincode = "multi" /\ Count("unknown") = 1) =>
           /\ Ns = <<"complexasset">> =>
                outcome = <<Failure(UnknownMessage(" passed to complex asset with args "))>>
           /\ Ns = <<"simpleasset">> =>
                outcome = <<Failure(UnknownMessage(" passed to simple asset with args "))>>

\* complexasset:Update, a function only simpleasset has, was answered by
\* complexasset's unknown handler
C4_Witness ==
    /\ chaincode = "multi"
    /\ Done
    /\ rawName = Named("complexasset", "Update")
    /\ Steps = <<"before", "unknown">>
    /\ trace[2].fn = "handleComplexUnknown"
    /\ Failed

----------------------------------------------------------------------------

NoSuchContract ==
    /\ SplitName(rawName).hasNs
    /\ \A i \in 1..Len(Contracts) : Contracts[i].name # Ns

\* C5: in a call ns:fn where no contract is registered as ns, no hook and
\* no function of any contract runs, the router gets no further than the
\* resolution, and the response is the failure "Contract not found with
\* name <ns>".
C5_ContractNotFound ==
    NoSuchContract =>
      /\ trace = <<>>
      /\ contract = 0
      /\ pc \in {"resolve", "done", "idle"}
      /\ pc \in {"done", "idle"} =>
           outcome = <<Failure(<<"Contract not found with name ">> \o Ns)>>

\* badname:Read was answered with the contract-not-found failure
C5_Witness ==
    /\ Done
    /\ NoSuchContract
    /\ Ns = <<"badname">>
    /\ outcome = <<Failure(<<"Contract not found with name ", "badname">>)>>
    /\ trace = <<>>

----------------------------------------------------------------------------

NoSuchFunction == contract # 0 /\ Fn \notin Functions(Current.kind)

\* C6: in a call to a function the resolved contract does not have, when
\* that contract has no unknown handler, no function and no after
\* transaction runs and the response is the failure "Function <fn> not
\* found in contract <name>".
C6_FunctionNotFound ==
    (NoSuchFunction /\ Current.unknown = None) =>
      /\ Count("main") = 0
      /\ Count("after") = 0
      /\ Count("unknown") = 0
      /\ pc \in {"done", "idle"} =>
           outcome = <<Failure(<<"Function ">> \o Fn
                                 \o <<" not found in contract ">> \o Current.name)>>

\* SimpleAsset:BadFunction was answered with the function-not-found failure
C6_Witness ==
    /\ Done
    /\ NoSuchFunction
    /\ Current.unknown = None
    /\ outcome = <<Failure(<<"Function ", "BadFunction",
                             " not found in contract ", "SimpleAsset">>)>>

----------------------------------------------------------------------------

\* the call names a function the resolved contract does not have and the
\* contract has an unknown handler
UnknownCall == NoSuchFunction /\ Current.unknown # None

Over == pc \in {"done", "idle"}

\* C7 as stated: in such a call only the unknown handler runs, once, and
\* the response is a failure exactly when the handler returned an error.
C7_OnlyUnknownRuns ==
    (UnknownCall /\ Over) =>
      /\ Steps = <<"unknown">>
      /\ trace[1].failed <=> Failed

\* C7: in such a call no function runs and the unknown handler runs once
\* at most; the before transaction, if the contract has one, runs first
\* and its error ends the call; otherwise the unknown handler runs exactly
\* once and its error is the response; if it returns no error the after
\* transaction, if the contract has one, runs once, and the response is
\* the value the unknown handler returned unless the after transaction
\* returns an error.
C7_UnknownHook ==
    UnknownCall =>
      LET b == IF Current.before # None THEN 1 ELSE 0
      IN  /\ Count("main") = 0
          /\ Count("unknown") <= 1
          /\ Over =>
               /\ Len(trace) >= 1
               /\ Len(outcome) = 1
               /\ b = 1 => (trace[1].step = "before" /\ trace[1].fn = Current.before)
               /\ (b = 1 /\ trace[1].failed) => (Len(trace) = 1 /\ Failed)
               /\ (b = 0 \/ ~trace[1].failed) =>
                    /\ Len(trace) >= b + 1
                    /\ trace[b + 1].step = "unknown"
                    /\ trace[b + 1].fn = Current.unknown
                    /\ trace[b + 1].failed => (Len(trace) = b + 1 /\ Failed)
                    /\ (trace[b + 1].failed /\ chaincode = "extended") =>
                         outcome[1].message =
                           <<"Unknown function name ">> \o rawName
                             \o <<" passed with args ">> \o FmtArgs(params)
                    /\ (~trace[b + 1].failed /\ Current.after = None) =>
                         (Len(trace) = b + 1 /\ Succeeded)
                    /\ (~trace[b + 1].failed /\ Current.after # None) =>
                         /\ Len(trace) = b + 2
                         /\ trace[b + 2].step = "after"
                         /\ trace[b + 2].fn = Current.after
                         /\ trace[b + 2].failed => Failed
                         /\ ~trace[b + 2].failed =>
                              outcome = <<Success(<<"unknown value">>)>>

\* an unknown function was answered by the unknown handler's value, with
\* the before transaction ahead of the handler and the after one behind
C7_Witness ==
    /\ chaincode = "hooked"
    /\ Done
    /\ UnknownCall
    /\ Steps = <<"before", "unknown", "after">>
    /\ outcome = <<Success(<<"unknown value">>)>>

\* C8: in a call to a function the resolved contract does not have, when
\* the contract has a before transaction and an unknown handler, the
\* unknown handler never runs ahead of the before transaction: when the
\* router is about to call it, and wherever it shows in the run, the
\* before transaction has run, once, first.
C8_BeforeThenUnknown ==
    (UnknownCall /\ Current.before # None) =>
      /\ pc = "unknown" => Steps = <<"before">>
      /\ \A i \in 1..Len(trace) :
           trace[i].step = "unknown" =>
             (i = 2 /\ trace[1].step = "before" /\ trace[1].fn = Current.before)
      /\ Count("before") <= 1

\* SimpleAsset:BadFunction on the extended sample: getAsset, then
\* handleUnknown
C8_Witness ==
    /\ chaincode = "extended"
    /\ Done
    /\ UnknownCall
    /\ Steps = <<"before", "unknown">>
    /\ trace[1].fn = "getAsset"
    /\ trace[2].fn = "handleUnknown"

----------------------------------------------------------------------------

Types == ParamTypes(Current.kind, Fn)

\* text that is no value of the declared type
Unparsable(type, raw) ==
    \/ type = "int" /\ ~IsIntLiteral(raw)
    \/ type = "float64" /\ ~IsFloatLiteral(raw)
    \/ type = "[]string" /\ ~(ParseStrings(raw, 1).ok
                                /\ ParseStrings(raw, 1).next = Len(raw) + 1)

BadPositions == {i \in 1..Len(params) : Unparsable(Types[i], params[i])}

Mentions(msg, sub) ==
    \E k \in 1..Len(msg) : SubSeq(msg, k, k + Len(sub) - 1) = sub

\* C9: in a call to an existing function with the declared number of
\* arguments, one of which is no value of its parameter's type, once the
\* before transaction (if any) has passed, no function and no after
\* transaction runs and the response is a failure whose message carries
\* the position of the first such argument and the type expected.
C9_ConversionFailure ==
    (/\ contract # 0
     /\ target = "main"
     /\ Len(params) = Len(Types)
     /\ BadPositions # {}) =>
      /\ Count("main") = 0
      /\ Count("after") = 0
      /\ pc # "main" /\ pc # "after"
      /\ (Over /\ \A i \in 1..Len(trace) : ~trace[i].failed) =>
           /\ Failed
           /\ \E i \in BadPositions :
                /\ \A j \in BadPositions : i <= j
                /\ Mentions(outcome[1].message, Itoa(i))
                /\ Mentions(outcome[1].message, <<Types[i]>>)

\* Update K1 Updated on the integer asset: the second argument is no int
C9_Witness ==
    /\ chaincode = "integer"
    /\ Done
    /\ Fn = <<"Update">>
    /\ params = <<K1, <<"Updated">>>>
    /\ BadPositions = {2}
    /\ trace = <<>>
    /\ Failed
    /\ Mentions(outcome[1].message, <<"2">>)

ArgsFail == Len(params) # Len(Types) \/ BadPositions # {}

\* C10: in a call to an existing function of a contract with a before
\* transaction, with arguments of the wrong number or type, the before
\* transaction has run once, first, by the time the arguments are checked;
\* no function runs; and when the call ends on the rejected arguments the
\* context still holds what the before transaction put there and the world
\* state what it wrote.
C10_BeforeFirst ==
    (/\ contract # 0
     /\ target = "main"
     /\ Current.before # None
     /\ ArgsFail) =>
      /\ Count("main") = 0
      /\ pc \in {"convert", "done", "idle"} =>
           (Steps = <<"before">> /\ trace[1].fn = Current.before)
      /\ (Over /\ ~trace[1].failed) =>
           /\ Failed
           /\ Current.before = "beforeFn" =>
                /\ ctx = Bytes(<<"set by before">>)
                /\ Get(world, <<"seen">>) = Bytes(<<"before ran">>)
           /\ Current.before = "getAsset" => ctx = Get(world, params[1])

\* Main K1 on the Hooked contract: the before transaction ran and set the
\* context, then K1 was rejected as no int
C10_Witness ==
    /\ chaincode = "hooked"
    /\ Done
    /\ target = "main"
    /\ params = <<K1>>
    /\ Steps = <<"before">>
    /\ ~trace[1].failed
    /\ Failed
    /\ ctx = Bytes(<<"set by before">>)
    /\ Get(world, <<"seen">>) = Bytes(<<"before ran">>)

----------------------------------------------------------------------------

\* position in the run of the function's step (0: it did not run)
MainAt ==
    IF \E i \in 1..Len(trace) : trace[i].step = "main"
    THEN CHOOSE i \in 1..Len(trace) : trace[i].step = "main"
    ELSE 0

\* position in the run of the after transaction's step (0: it did not run)
AfterAt ==
    IF \E i \in 1..Len(trace) : trace[i].step = "after"
    THEN CHOOSE i \in 1..Len(trace) : trace[i].step = "after"
    ELSE 0

\* the text a value of a declared return type is sent as
Text(type, v) ==
    CASE type = "none" -> <<>>
      [] type = "string" -> v
      [] type = "int" -> Itoa(v)
      [] type = "float64" -> FormatFloat(v)
      [] type = "[]string" ->
           IF v.nil THEN <<"null">> ELSE EncodeStrings(v.elems)
      [] type = "*defs.BasicAsset" -> EncodeBasicAsset(v)

\* C11: when a call is over in which the function ran and the after
\* transaction, if any, returned no error, the response follows from the
\* function's declared returns and what it returned: without an error
\* return it never fails, and the payload is empty (no return) or the text
\* of the value; with an error return, a non-nil error gives the failure
\* with exactly the error's message, and a nil error gives the success with
\* an empty payload (error only) or the text of the value (value, error).
C11_ReturnFraming ==
    (Over /\ contract # 0 /\ target = "main" /\ MainAt # 0
       /\ (AfterAt # 0 => ~trace[AfterAt].failed)) =>
      LET r == returns[MainAt]
          T == ReturnType(Current.kind, Fn)
      IN  /\ ~ReturnsError(Current.kind, Fn) => r.err.nil
          /\ ~r.err.nil => outcome = <<Failure(r.err.msg)>>
          /\ r.err.nil =>
               outcome = <<[status |-> 200, payload |-> Text(T, r.val),
                            message |-> <<>>]>>
          /\ (r.err.nil /\ T = "none") => outcome[1].payload = <<>>

\* Main -12 on the Hooked contract, a function returning (int, error):
\* nil error, and the payload is the text of the value
C11_Witness ==
    /\ chaincode = "hooked"
    /\ Done
    /\ Fn = <<"Main">>
    /\ params = << <<"-", "1", "2">> >>
    /\ MainAt = 2
    /\ returns[2].err.nil
    /\ returns[2].val = 0 - 12
    /\ outcome = <<Success(<<"-", "1", "2">>)>>

----------------------------------------------------------------------------

\* C12: when a call is over in which the function and then the after
\* transaction ran: if the after transaction returned a non-nil error the
\* response is the failure with that error's message and carries no
\* payload; if it returned no error the response is the success with the
\* text of the value the function returned, not of what the after
\* transaction returned.
C12_AfterOutcome ==
    (Over /\ contract # 0 /\ target = "main" /\ MainAt # 0 /\ AfterAt # 0) =>
      LET m == returns[MainAt]
          a == returns[AfterAt]
          T == ReturnType(Current.kind, Fn)
      IN  /\ AfterAt = MainAt + 1
          /\ m.err.nil
          /\ ~a.err.nil =>
               /\ outcome = <<Failure(a.err.msg)>>
               /\ outcome[1].payload = <<>>
          /\ a.err.nil =>
               outcome = <<[status |-> 200, payload |-> Text(T, m.val),
                            message |-> <<>>]>>

\* Main 7 on the Hooked contract: the function returned 7, the after
\* transaction an error, and the response is that error
C12_Witness ==
    /\ chaincode = "hooked"
    /\ Done
    /\ Fn = <<"Main">>
    /\ Steps = <<"before", "main", "after">>
    /\ returns[2].err.nil
    /\ returns[2].val = 7
    /\ ~returns[3].err.nil
    /\ outcome = <<Failure(<<"after failed">>)>>

----------------------------------------------------------------------------

\* C13: wherever an after transaction that declares a parameter besides
\* the context has run behind a function, it was passed the value that
\* function returned in this call, and wherever a before transaction has
\* run it was passed nothing besides the context.
C13_HookArguments ==
    \A i \in 1..Len(trace) :
      /\ (trace[i].step = "after" /\ MainAt # 0 /\ HookParams(trace[i].fn) = 1) =>
           returns[i].passed = <<returns[MainAt].val>>
      /\ trace[i].step = "before" => returns[i].passed = <<>>

----------------------------------------------------------------------------

\* C14: a call starts with a new context, whatever the calls before it
\* left in theirs: until its first hook or function has run the context's
\* data is unset; within the call every hook and function is handed the
\* context as the one before it left it, so the function of the sample
\* SimpleAsset, which answers Read from the context, returns the bytes
\* the before transaction put there.
C14_ContextPerCall ==
    /\ (InFlight /\ trace = <<>>) => ctx = Nil
    /\ \A i \in 1..Len(returns) :
         returns[i].ctxIn = (IF i = 1 THEN Nil ELSE returns[i - 1].ctxOut)
    /\ (Len(returns) > 0 /\ pc # "idle") => ctx = returns[Len(returns)].ctxOut
    /\ (contract # 0 /\ Current.kind = "SimpleAsset" /\ Fn = <<"Read">>
          /\ MainAt = 2 /\ returns[2].err.nil) =>
         /\ trace[1].step = "before"
         /\ returns[2].val = returns[1].ctxOut.bytes
         /\ Over => outcome = <<Success(returns[1].ctxOut.bytes)>>

\* a later call of the extended sample: getAsset put the stored bytes in
\* the context and Read answered with them
C14_Witness ==
    /\ chaincode = "extended"
    /\ calls >= 1
    /\ Done
    /\ Fn = <<"Read">>
    /\ Steps = <<"before", "main">>
    /\ returns[1].ctxIn = Nil
    /\ returns[1].ctxOut = Bytes(<<"Initialised">>)
    /\ returns[2].ctxIn = Bytes(<<"Initialised">>)
    /\ outcome = <<Success(<<"Initialised">>)>>

----------------------------------------------------------------------------

\* contract and function or handler the router resolves name to, from
\* world state w and receiver a
Dispatched(name, w, a) ==
    LET c == ResolveStep(Contracts,
                         NewCall(name, <<>>, TRUE, [h \in HookNames |-> "ok"], w, a))
        d == IF c.pc = "done" THEN c ELSE LookupStep(Contracts, c)
    IN  [contract |-> d.contract, target |-> d.target, outcome |-> d.outcome]

----------------------------------------------------------------------------
(* Creating a chaincode from contracts that break the function format.     *)

\* the four defects of a signature's shape
TwoNonErrors(sig) ==
    Cardinality({i \in 1..Len(sig.returns) : sig.returns[i] # ErrorType}) >= 2
ErrorNotLast(sig) ==
    \E i \in 1..(Len(sig.returns) - 1) : sig.returns[i] = ErrorType
ContextNotFirst(sig) ==
    \E i \in 2..Len(sig.params) : sig.params[i] = Context
ContextTwice(sig) ==
    Cardinality({i \in 1..Len(sig.params) : sig.params[i] = Context}) >= 2

Misshapen(cs) ==
    \E i \in 1..Len(cs) : \E fn \in Functions(cs[i].kind) :
      LET sig == Signature(cs[i].kind, fn)
      IN  \/ TwoNonErrors(sig)
          \/ ErrorNotLast(sig)
          \/ ContextNotFirst(sig)
          \/ ContextTwice(sig)

\* nothing of a call has ever happened
NeverServed ==
    /\ pc \in {"new", "panicked"}
    /\ calls = 0
    /\ rawName = <<>>
    /\ trace = <<>>
    /\ outcome = <<>>
    /\ world = <<>>

\* C16: when a registered contract has a function with two non-error
\* returns, an error that is not its last return, or a transaction context
\* that is not its first parameter or appears more than once, creating the
\* chaincode fails and the chaincode never serves a call, not even one to
\* a valid contract registered with it.
C16_MisshapenNeverServes ==
    Misshapen(Contracts) => (NeverServed /\ ~ENABLED Receive)

C16_Witness ==
    /\ pc = "panicked"
    /\ chaincode = "twovalues"
    /\ ValidContract(Contracts[1])
    /\ ~ValidContract(Contracts[2])

\* a registered contract whose before transaction declares a parameter
\* besides the transaction context
BeforeTakesArgument(cs) ==
    \E i \in 1..Len(cs) :
      cs[i].before # None /\ HookParams(cs[i].before) > 0

\* C17: a contract whose before transaction takes any parameter other than
\* one optional transaction context fails at registration, so that its
\* chaincode never serves a call.
C17_BeforeHookSignature ==
    BeforeTakesArgument(Contracts) => NeverServed

\* a registered contract with a function that takes in or returns a type
\* outside the README's lists
OutsideLists(cs) ==
    \E i \in 1..Len(cs) : \E fn \in Functions(cs[i].kind) :
      LET sig == Signature(cs[i].kind, fn)
      IN  \/ \E j \in 1..Len(sig.params) :
                sig.params[j] # Context /\ ~Permissible(sig.params[j])
          \/ \E j \in 1..Len(sig.returns) :
                sig.returns[j] # ErrorType /\ ~Permissible(sig.returns[j])

\* C18: a function with a parameter or return type outside the closed set
\* (the basic types and arrays and slices of them, of any depth) is rejected
\* when the chaincode is created, so that its chaincode never serves a call.
C18_ClosedTypeSet ==
    OutsideLists(Contracts) => NeverServed

----------------------------------------------------------------------------
(* Hooks and administrative functions named by a call.                     *)

\* the names a call must not reach on contract k: its hooks, the
\* administrative functions and the system contract's setMetadata
Reserved(k) ==
    AdministrativeFunctions \cup {<<"setMetadata">>} \cup
      ({<<k.before>>, <<k.after>>, <<k.unknown>>} \ {<<None>>})

ReservedCall == contract # 0 /\ Fn \in Reserved(Current)

----------------------------------------------------------------------------
(* The simple asset contract.                                              *)

\* a finished call of SimpleAsset.Create with a key, the storage working
CreateCall ==
    /\ chaincode \in {"simple", "extended"}
    /\ Over
    /\ contract = 1
    /\ Fn = <<"Create">>
    /\ Len(params) = 1
    /\ stubOk

\* C20: a Create of a key under which nothing is stored succeeds with an
\* empty payload and stores the initial value; once a Create of a key has
\* succeeded, every later Create of it fails with the "already exists"
\* error and leaves what is stored under the key as it was.  (No function
\* deletes a key and Update writes existing keys only, so a key is in the
\* world state exactly when a Create of it has succeeded.)
C20_CreateOnce ==
    CreateCall =>
      IF params[1] \in DOMAIN start.world
      THEN /\ outcome = <<Failure(Exists(params[1]))>>
           /\ world = start.world
      ELSE /\ outcome = <<Success(<<>>)>>
           /\ world = Put(start.world, params[1], <<"Initialised">>)

\* a finished call of SimpleAsset.Read with a key, the storage working
ReadCall ==
    /\ chaincode \in {"simple", "extended"}
    /\ Over
    /\ contract = 1
    /\ Fn = <<"Read">>
    /\ Len(params) = 1
    /\ stubOk

\* a finished call of SimpleAsset.Update with key and value, the storage
\* working
UpdateCall ==
    /\ chaincode \in {"simple", "extended"}
    /\ Over
    /\ contract = 1
    /\ Fn = <<"Update">>
    /\ Len(params) = 2
    /\ stubOk

\* C21: Read of a key that has been created succeeds and returns the value
\* of the most recent successful Update of the key, or "Initialised" when it
\* was never updated.  (Create and Update are the only writers, so that
\* value is what is stored under the key when the call starts.)
C21_ReadLatest ==
    (ReadCall /\ params[1] \in DOMAIN start.world) =>
      /\ outcome = <<Success(start.world[params[1]].bytes)>>
      /\ world = start.world

\* C22: with the storage working, Update and Read of a key that was never
\* created fail with the "does not exist" error naming the key and store
\* nothing, and a Create of a key under which nothing is stored succeeds,
\* also after such a failed Update.
C22_MissingKey ==
    /\ (UpdateCall /\ params[1] \notin DOMAIN start.world) =>
         /\ outcome = <<Failure(<<"Cannot update asset. Asset with id ">>
                                  \o params[1] \o <<" does not exist">>)>>
         /\ world = start.world
    /\ (ReadCall /\ params[1] \notin DOMAIN start.world) =>
         /\ outcome = <<Failure(<<"Cannot read asset. Asset with id ">>
                                  \o params[1] \o <<" does not exist">>)>>
         /\ world = start.world
    /\ (CreateCall /\ params[1] \notin DOMAIN start.world) =>
         /\ outcome = <<Success(<<>>)>>
         /\ params[1] \in DOMAIN world

C22_Witness ==
    /\ chaincode = "extended"
    /\ UpdateCall
    /\ Done
    /\ calls = 1
    /\ params = <<K1, <<"Updated">>>>
    /\ world = <<>>
    /\ outcome = <<Failure(<<"Cannot update asset. Asset with id ", "K1",
                             " does not exist">>)>>

\* the complexasset functions that decode the value stored under their id
Decoding ==
    {<<"Read">>, <<"ReadValue">>, <<"ReadColours">>, <<"UpdateOwner">>,
     <<"UpdateValue">>, <<"AddColours">>}

\* a finished call of the two-contract chaincode in which a function of
\* complexasset ran, the storage working
ComplexCall ==
    /\ chaincode = "multi"
    /\ Over
    /\ contract = 2
    /\ MainAt # 0
    /\ stubOk

\* the texts complexasset writes: the encoding of some asset.  Every other
\* stored text was written by simpleasset.
AssetText(ts) ==
    LET dec == DecodeAsset(ts, ZeroAsset)
    IN  dec.ok /\ EncodeAsset(dec.ca) = ts

\* C23: in the two-contract chaincode a decoding function of complexasset,
\* called on a key whose stored value was written by simpleasset, fails
\* with "Asset with id <k> is not a ComplexAsset" and leaves the world
\* state as it was.
C23_NotAComplexAsset ==
    (/\ ComplexCall
     /\ Fn \in Decoding
     /\ params[1] \in DOMAIN start.world
     /\ ~AssetText(start.world[params[1]].bytes)) =>
      /\ outcome = <<Failure(<<"Asset with id ">> \o params[1]
                               \o <<" is not a ComplexAsset">>)>>
      /\ world = start.world

\* the asset stored under k in w, as a new struct decodes it
StoredAsset(w, k) == DecodeAsset(w[k].bytes, ZeroAsset).ca

\* under k, w holds an asset complexasset wrote whose colours are a list:
\* what Create stores and AddColours keeps
HasColours(w, k) ==
    /\ k \in DOMAIN w
    /\ AssetText(w[k].bytes)
    /\ ~StoredAsset(w, k).nilColours

----------------------------------------------------------------------------
(* The metadata.                                                           *)

\* the function names a metadata text lists for the contract called ns
Listed(text, ns) ==
    UNION {{<<text[m]>> : m \in {n \in (i + 3)..Len(text) :
                                  /\ text[n] \notin {",", "}"}
                                  /\ \A j \in i..n : text[j] # "}"}} :
           i \in {n \in 1..(Len(text) - 2) :
                    /\ text[n] = "{"
                    /\ <<text[n + 1]>> = ns
                    /\ text[n + 2] = ":"}}

\* every function name a call can carry for a contract: the methods of
\* its struct, its hooks and a name it does not have
Nameable(c) ==
    Methods(c.kind) \cup {<<"getAsset">>, <<"handleUnknown">>, <<"Missing">>}

\* a finished call of the system contract's GetMetadata
MetadataCall ==
    /\ Over
    /\ contract = Len(Contracts)
    /\ Fn = <<"GetMetadata">>
    /\ MainAt # 0

----------------------------------------------------------------------------
(* The converter's round trip.                                             *)

\* C26: a value of an array or slice type, nested to any depth the type
\* has, encoded by the output converter and decoded by the input converter
\* for a parameter of the same type, comes back without error as the
\* value it was.
C26_RoundTrip ==
    (chaincode = "converter" /\ pc = "decoded") =>
      /\ errors = 0
      /\ typed = <<value.val>>

C26_Witness ==
    /\ chaincode = "converter"
    /\ pc = "decoded"
    /\ value.type = "[][]string"
    /\ value.val = Slice(<<Slice(<< <<>>, <<"b", "c">> >>), NilSlice>>)
    /\ params = << <<"[", "[", Quote, Quote, ",", Quote, "b", "c", Quote,
                     "]", ",", "null", "]">> >>
    /\ typed = <<value.val>>

----------------------------------------------------------------------------
(* Requests without arguments.                                             *)

\* a request that came with an empty argument list has been served
EmptyRequest == Done /\ rawName = <<>> /\ params = <<>>

----------------------------------------------------------------------------
(* The complex asset contract's receiver.                                  *)

\* the current call served from the world state it started from by a
\* ComplexAsset struct that no call has used
Afresh ==
    Serve(Contracts,
          NewCall(rawName, params, stubOk, plan, start.world,
                  [start.ca EXCEPT !.owner = ZeroAsset.owner,
                                   !.colours = ZeroAsset.colours,
                                   !.nilColours = ZeroAsset.nilColours,
                                   !.value = ZeroAsset.value]))

\* C28: what a complexasset function answers and what it stores follow
\* from its arguments and the value stored under its id alone: the call
\* answers and stores what it would have, had no call been served by the
\* contract before it, so that nothing of an asset decoded in an earlier
\* call shows in them.
C28_OutcomeFromStoredValue ==
    ComplexCall =>
      /\ outcome = Afresh.outcome
      /\ world = Afresh.world

----------------------------------------------------------------------------
(* Two calls at once.                                                      *)

\* call p served on its own, by the function as one step, from world
\* state w and struct a
Alone(p, w, a) ==
    CallFunction("ComplexAsset", rawName[p], "ok", typed[p], w, TRUE,
                 GetState(w, TRUE, typed[p][1]).val, a)

\* the response to a call that returned r
Response(p, r) ==
    IF IsError(r.err) THEN <<Failure(r.err.msg)>>
    ELSE <<Success(FormatValue(ReturnType("ComplexAsset", rawName[p]), r.val))>>

\* both calls have returned what they return, and the world state is what
\* it is, when p is served first and q after it
SerialOrder(p, q) ==
    LET first  == Alone(p, start.world, start.ca)
        second == Alone(q, first.world, first.ca)
    IN  /\ outcome[p] = Response(p, first)
        /\ outcome[q] = Response(q, second)
        /\ world = second.world

\* C29: when two calls of complexasset functions on different keys have
\* been served at once, each has the payload, and the world state has the
\* values, of the two calls served one after the other in one of the two
\* orders.
C29_Serializable ==
    (chaincode = "concurrent" /\ At(1) = "end" /\ At(2) = "end") =>
      SerialOrder(1, 2) \/ SerialOrder(2, 1)

----------------------------------------------------------------------------
(* The integer simple asset contract.                                      *)

\* a finished call of the integer contract in which the function fn ran,
\* the storage working
IntegerCall(fn) ==
    /\ chaincode = "integer"
    /\ Over
    /\ contract = 1
    /\ Fn = fn
    /\ MainAt # 0
    /\ stubOk

\* the number the text stored under k in w is the literal of
Stored(w, k) == ParseInt(w[k].bytes)

\* C30: in the integer contract Create stores "0"; a successful Update
\* stores the sum of the number stored and the number given; Read returns
\* the number stored; and every stored value is a base-10 integer literal.
\* So after Create(k) and Update(k, v1) ... Update(k, vn), Read(k) returns
\* v1 + ... + vn.
C30_IntegerSum ==
    /\ (IntegerCall(<<"Create">>) /\ Succeeded) =>
         world[params[1]].bytes = <<"0">>
    /\ (IntegerCall(<<"Update">>) /\ Succeeded) =>
         Stored(world, params[1]) = Stored(start.world, params[1]) + typed[2]
    /\ (IntegerCall(<<"Read">>) /\ params[1] \in DOMAIN start.world) =>
         outcome = <<Success(Itoa(Stored(start.world, params[1])))>>
    /\ chaincode = "integer" =>
         \A k \in DOMAIN world : IsIntLiteral(world[k].bytes)


====
